---- MODULE Spec2Model ----
(***************************************************************************)
(* Model of claude-code-live: the incremental session tailer               *)
(* (src/src/claude_code_live/tailer.py) and the bounded session registry   *)
(* (src/src/claude_code_live/server.py).                                   *)
(*                                                                         *)
(* Files.  A file is a sequence of characters.  The session files are      *)
(* ASCII JSONL, so a character is a byte and f.tell() is the number of     *)
(* characters read.  The text of a JSON object is abstracted to two        *)
(* tokens: an opening token that carries the "type" member                 *)
(* ("U": {"type":"user", "A": {"type":"assistant", "S": {"type":"system",  *)
(* "O": { with no type member) and the closing brace "}".  " " is          *)
(* whitespace and "\n" the line terminator.  A line is well-formed JSON    *)
(* when it is an opening token and a closing brace, with any blanks around *)
(* and between them; every well-formed line is a JSON object (the writer   *)
(* of a session file writes objects, or text that is not JSON at all).     *)
(*                                                                         *)
(* Specifications.  Spec: one SessionTailer and the file it tails, written *)
(* one character at a time with reads at any point.  SpecRegistry: the     *)
(* registry of tracked sessions (add_session, remove_session) over session *)
(* files that are created, touched and deleted.                            *)
(* SpecLive: the watch loop (server.py) over session files of which one is *)
(* being written, and the events it broadcasts.  SpecCatchup and           *)
(* SpecCatchupFair: the subscribers of /events, each with its queue and    *)
(* its event generator, beside the watch loop.  SpecIdle and SpecTracker:  *)
(* the idle tracker of the summarizer                                      *)
(* (src/src/claude_code_session_explorer/summarizer/tracker.py), without   *)
(* and with mark_session_summarized and the cancellation of a task;        *)
(* SpecSweepFair and SpecTrackerFair add the scheduling of the stuck       *)
(* check, the timers and the callbacks.  SpecUsage: the two                *)
(* get_session_token_usage functions over a growing session file.          *)
(* SpecWaiting: the waiting-for-input state of the explorer's tailer.      *)
(* SpecList: get_sessions_list over every small registry.  SpecTruncate:   *)
(* the SessionTailer over a file that may also be cut short.  SpecDedup:   *)
(* the pricing function over records that may lack a message id, a request *)
(* id or a usage.  SpecStallFair: SpecCatchup with the scheduling of one   *)
(* subscriber's catch-up and of its end.  SpecDeliver: one subscriber      *)
(* beside the watch loop over growing files, with the count of the         *)
(* messages it was handed per session and entry (received).                *)
(***************************************************************************)
EXTENDS Integers, Sequences, FiniteSets, TLC

VARIABLES
    \* ---- one SessionTailer and the file it tails (specification Spec) ----
    file,            \* characters of the session file (as last seen on disk)
    position,        \* SessionTailer.position
    buffer,          \* SessionTailer.buffer
    message_index,   \* SessionTailer.message_index
    op,              \* the last call: "init" | "read_new_lines" | "read_all",
                     \* or "truncate" once the file was cut short since
    opened,          \* what open() met in the last call
    ret,             \* list returned by the last call
    prev,            \* position, buffer, message_index before the last call
    returned         \* concatenation of the lists read_new_lines() returned so far

VARIABLES
    \* ---- the session registry of server.py (specification SpecRegistry) ----
    fsys,                  \* the session files on disk: exists, mtime, content
    _sessions,             \* server._sessions, a dict kept in insertion order
    _known_session_files,  \* server._known_session_files
    call,                  \* the last call made to the registry
    result                 \* what the last call returned

VARIABLES
    \* ---- the live path of server.py (specification SpecLive) ----
    emitted,   \* per session id: the entries broadcast as messages since it was created
    added_at,  \* per session id: length of its file when the session was created
    flaky      \* the paths where open() of an existing file can fail with an IOError

VARIABLES
    \* ---- subscribers of server.py ----
    _clients,  \* server._clients: the subscribers whose queue is in the set
    queues,    \* per subscriber: the events in its asyncio.Queue, oldest first
    lock,      \* who holds server._sessions_lock
    gen        \* per subscriber: where its event_generator stands

VARIABLES
    \* ---- the IdleTracker of summarizer/tracker.py (specification SpecTracker) ----
    sessions,   \* IdleTracker.sessions: per session id its TrackedSession, if any
    _timers,    \* IdleTracker._timers: whether an idle timer task of the session sleeps
    inflight,   \* per session id: summarize_callback invocations that are awaited
    _shutdown,  \* IdleTracker._shutdown
    _stuck_check_task,  \* IdleTracker._stuck_check_task: None, "running" or "done"
    last        \* the last step of the tracker: operation, session id, argument

VARIABLES
    \* ---- token usage of one session file (specification SpecUsage) ----
    usage_file,  \* the assistant entries of the session file, in file order
    totals,      \* what the last call of get_session_token_usage returned
    counted      \* the number of entries the file had at that call

VARIABLES
    \* ---- the SessionTailer of claude_code_session_explorer/tailer.py and
    \* ---- its waiting-for-input state (specification SpecWaiting) ----
    history,             \* the entries (complete lines) of the session file
    seen,                \* the entries that lie before SessionTailer.position
    _waiting_for_input,  \* SessionTailer._waiting_for_input
    _last_message_type,  \* SessionTailer._last_message_type
    called               \* the last call: "init", "read_new_lines", "read_all"

VARIABLES
    \* ---- the list of sessions of server.py (specification SpecList) ----
    listed   \* whether get_sessions_list was called, and the ids it returned

VARIABLES
    \* ---- what the subscribers were sent (specification SpecDeliver) ----
    received  \* per subscriber and session id: the message events its
              \* event_generator has yielded since it connected

tailerVars == <<file, position, buffer, message_index, op, opened, ret, prev, returned>>

registryVars == <<fsys, _sessions, _known_session_files, call, result>>

liveVars == <<emitted, added_at, flaky>>

streamVars == <<_clients, queues, lock, gen>>

trackerVars ==
    <<sessions, _timers, inflight, _shutdown, _stuck_check_task, last>>

usageVars == <<usage_file, totals, counted>>

waitingVars ==
    <<history, seen, _waiting_for_input, _last_message_type, called>>

vars ==
    <<tailerVars, registryVars, liveVars, streamVars, trackerVars, usageVars,
      waitingVars, listed, received>>

\* what the steps on the tailer, and those on the registry, leave alone
outsideTailer ==
    <<registryVars, liveVars, streamVars, trackerVars, usageVars, waitingVars,
      listed, received>>

outsideRegistry ==
    <<tailerVars, liveVars, streamVars, trackerVars, usageVars, waitingVars,
      listed, received>>

\* what the steps of the server leave alone
outsideServer == <<tailerVars, trackerVars, usageVars, waitingVars, listed>>

\* what the steps of the idle tracker leave alone
outsideTracker ==
    <<tailerVars, registryVars, liveVars, streamVars, usageVars, waitingVars,
      listed, received>>

\* what the token counts leave alone
outsideUsage ==
    <<tailerVars, registryVars, liveVars, streamVars, trackerVars, waitingVars,
      listed, received>>

\* what the explorer's tailer leaves alone
outsideWaiting ==
    <<tailerVars, registryVars, liveVars, streamVars, trackerVars, usageVars,
      listed, received>>

\* what get_sessions_list leaves alone
outsideList ==
    <<tailerVars, registryVars, liveVars, streamVars, trackerVars, usageVars,
      waitingVars, received>>

-----------------------------------------------------------------------------
(* Bounds of the model *)

\* number of line terminators the writer appends to the file
MaxLines == 3

\* number of characters the writer appends to the file
MaxFileLen == 9

\* capacity of the registry.  server.py:28 sets MAX_SESSIONS = 10; the code
\* reads it only in len(_sessions) >= MAX_SESSIONS, and the model checks the
\* registry with a small capacity
MAX_SESSIONS == 2

\* modification times a session file can have: 1 .. MaxMtime
MaxMtime == 2

\* number of characters appended to the session file that grows while the
\* watch loop runs
MaxLiveLen == 4

\* capacity of a subscriber's queue.  server.py:325 creates it with
\* maxsize=100; the model fills a small queue
QueueMaxsize == 2

-----------------------------------------------------------------------------
(* Characters *)

NL == "\n"

Whitespace == {" ", NL}

ObjectOpen == {"U", "A", "S", "O"}

\* The texts the writer of the session file writes as lines: a user entry, an
\* assistant entry, an entry of another type padded with blanks, an entry
\* without type, an object cut short (not valid JSON) and an empty line.
LineTexts ==
    { <<"U", "}">>, <<"A", "}">>, <<" ", "S", "}", " ">>, <<"O", "}">>,
      <<"U">>, <<>> }

IsPrefix(p, s) == Len(p) <= Len(s) /\ SubSeq(s, 1, Len(p)) = p

-----------------------------------------------------------------------------
(* Pure functions of tailer.py *)

\* str.split("\n")
RECURSIVE Split(_)
Split(s) ==
    IF \A i \in 1..Len(s) : s[i] # NL
    THEN <<s>>
    ELSE LET i == CHOOSE k \in 1..Len(s) :
                      s[k] = NL /\ \A j \in 1..(k - 1) : s[j] # NL
         IN  <<SubSeq(s, 1, i - 1)>> \o Split(SubSeq(s, i + 1, Len(s)))

RECURSIVE LStrip(_)
LStrip(s) == IF s # <<>> /\ s[1] \in Whitespace THEN LStrip(Tail(s)) ELSE s

RECURSIVE RStrip(_)
RStrip(s) ==
    IF s # <<>> /\ s[Len(s)] \in Whitespace
    THEN RStrip(SubSeq(s, 1, Len(s) - 1))
    ELSE s

\* str.strip()
Strip(s) == RStrip(LStrip(s))

\* the text without the insignificant whitespace JSON allows between tokens
Tokens(s) == SelectSeq(s, LAMBDA c : c \notin Whitespace)

TypeOf(c) ==
    CASE c = "U" -> "user"
      [] c = "A" -> "assistant"
      [] c = "S" -> "system"
      [] OTHER   -> "none"

\* json.loads(line): valid is FALSE where json.JSONDecodeError is raised,
\* otherwise obj is the parsed object (obj.type = "none": no "type" member)
JsonLoads(line) ==
    LET t == Tokens(line)
    IN  IF Len(t) = 2 /\ t[1] \in ObjectOpen /\ t[2] = "}"
        THEN [valid |-> TRUE, obj |-> [type |-> TypeOf(t[1])]]
        ELSE [valid |-> FALSE, obj |-> [type |-> "none"]]

\* a filter that lets every parsed entry through
ShouldInclude_All(obj) == TRUE

\* entry_type in ("user", "assistant")
ShouldInclude(obj) == obj.type \in {"user", "assistant"}

\* a loop that gives up at the first line json.loads rejects
OnDecodeError_Stop(rest) == <<>>

\* what a line that json.loads rejects does to the rest of the loop:
\* except json.JSONDecodeError: continue
OnDecodeError(rest) == rest

\* the loop over lines[:-1] of read_new_lines: the list of results
RECURSIVE ParseLines(_)
ParseLines(ls) ==
    IF ls = <<>> THEN <<>>
    ELSE LET line == Strip(Head(ls))
             rest == Tail(ls)
         IN  IF line = <<>> THEN ParseLines(rest)
             ELSE LET r == JsonLoads(line)
                  IN  IF r.valid
                      THEN (IF ShouldInclude(r.obj) THEN <<r.obj>> ELSE <<>>)
                               \o ParseLines(rest)
                      ELSE ParseLines(OnDecodeError(rest))

\* a tailer that forgets the unterminated text instead of buffering it
KeepLast_Drop(lines) == <<>>

\* self.buffer = lines[-1]
KeepLast(lines) == lines[Len(lines)]

\* a loop that also parses the unterminated last element
CompleteLines_All(lines) == lines

\* lines[:-1]
CompleteLines(lines) == SubSeq(lines, 1, Len(lines) - 1)

\* SessionTailer(path): position, buffer, message_index after __init__
NewTailer == [position |-> 0, buffer |-> <<>>, message_index |-> 0]

\* a tailer that starts over when the file cannot be opened
OnOpenError_Reset(t) == NewTailer

\* except FileNotFoundError / except IOError: return [] before self.position
\* is assigned: the tailer is as it was
OnOpenError(t) == t

\* a read that leaves the tailer at the end of whatever file it met
Tell_EndOfFile(pos, length) == length

\* f.seek(self.position); content = f.read(); f.tell(): the end of the file,
\* or the place sought when that lies beyond the end (nothing is read there)
Tell(pos, length) == IF pos > length THEN pos ELSE length

\* read_new_lines() of tailer t on a file with status st and characters f:
\* the tailer afterwards and the list returned
ReadNewLines(t, st, f) ==
    IF st # "present"
    THEN [tailer |-> OnOpenError(t), results |-> <<>>]
    ELSE LET content == SubSeq(f, t.position + 1, Len(f))
             tell    == Tell(t.position, Len(f))
         IN  IF content = <<>>
             THEN [tailer |-> [t EXCEPT !.position = tell], results |-> <<>>]
             ELSE LET lines   == Split(t.buffer \o content)
                      results == ParseLines(CompleteLines(lines))
                  IN  [tailer  |-> [position      |-> tell,
                                    buffer        |-> KeepLast(lines),
                                    message_index |-> t.message_index + Len(results)],
                       results |-> results]

\* a read_all() that rewinds the tailer itself and reads with it
AfterReadAll_Rewound(self, fresh) == fresh

\* read_all() reads with fresh_tailer = SessionTailer(self.path) and assigns
\* nothing to self
AfterReadAll(self, fresh) == self

\* read_all() of tailer t: the tailer afterwards and the list returned
ReadAll(t, st, f) ==
    LET r == ReadNewLines(NewTailer, st, f)
    IN  [tailer |-> AfterReadAll(t, r.tailer), results |-> r.results]

-----------------------------------------------------------------------------
(* Specification Spec: one tailer, one file *)

Self == [position |-> position, buffer |-> buffer, message_index |-> message_index]

\* what open(self.path) can meet: the file, no file (FileNotFoundError), or
\* a file that cannot be read (another IOError)
OpenOutcomes == {"present", "missing", "unreadable"}

TailerInit ==
    /\ file = <<>>
    /\ position = 0
    /\ buffer = <<>>
    /\ message_index = 0
    /\ op = "init"
    /\ opened = "present"
    /\ ret = <<>>
    /\ prev = NewTailer
    /\ returned = <<>>

\* the indexes of the line terminators of f
Terminators(f) == {i \in 1..Len(f) : f[i] = NL}

Max(S) == CHOOSE x \in S : \A y \in S : y <= x

Min(S) == CHOOSE x \in S : \A y \in S : x <= y

\* the text of f after its last line terminator
OpenLine(f) == SubSeq(f, Max(Terminators(f) \cup {0}) + 1, Len(f))

NumLines(f) == Cardinality(Terminators(f))

\* The writer appends one character: the next character of a line text, or
\* the terminator of a finished line.  An append of several characters is
\* several of these steps with no read in between.
AppendChar(c) ==
    /\ Len(file) < MaxFileLen
    /\ IF c = NL
       THEN OpenLine(file) \in LineTexts /\ NumLines(file) < MaxLines
       ELSE \E l \in LineTexts : IsPrefix(OpenLine(file) \o <<c>>, l)
    /\ file' = Append(file, c)
    /\ UNCHANGED <<position, buffer, message_index, op, opened, ret, prev, returned>>
    /\ UNCHANGED outsideTailer

\* tailer.read_new_lines(); between two calls the file may have been moved
\* away and put back with the same contents, or made unreadable: st is what
\* open() meets in this call
read_new_lines(st) ==
    LET r == ReadNewLines(Self, st, file)
    IN  /\ position' = r.tailer.position
        /\ buffer' = r.tailer.buffer
        /\ message_index' = r.tailer.message_index
        /\ op' = "read_new_lines"
        /\ opened' = st
        /\ ret' = r.results
        /\ prev' = Self
        /\ returned' = returned \o r.results
        /\ UNCHANGED file
        /\ UNCHANGED outsideTailer

\* tailer.read_all()
read_all(st) ==
    LET r == ReadAll(Self, st, file)
    IN  /\ position' = r.tailer.position
        /\ buffer' = r.tailer.buffer
        /\ message_index' = r.tailer.message_index
        /\ op' = "read_all"
        /\ opened' = st
        /\ ret' = r.results
        /\ prev' = Self
        /\ UNCHANGED <<file, returned>>
        /\ UNCHANGED outsideTailer

Next ==
    \/ \E c \in ObjectOpen \cup {"}", " ", NL} : AppendChar(c)
    \/ \E st \in OpenOutcomes : read_new_lines(st)
    \/ \E st \in OpenOutcomes : read_all(st)

-----------------------------------------------------------------------------
(* The session registry of server.py *)

None == "None"

\* the session ids: stems of the session files, one more than the registry holds
Stems == {ToString(i) : i \in 1..(MAX_SESSIONS + 1)}

\* the session files <projects dir>/<project>/<stem>.jsonl
Paths == {[dir |-> "project", stem |-> s] : s \in Stems}

Mtimes == 1..MaxMtime

\* float("inf")
Infinity == MaxMtime + 1

\* what each session file holds; the registry specification does not write
\* to the files: a complete user line, then (file "1") the start of another
SessionFileText(p) ==
    IF p.stem = "1" THEN <<"U", "}", NL, "A">> ELSE <<"U", "}", NL>>

\* get_session_id(path): path.stem
get_session_id(path) == path.stem

\* the ids of the tracked sessions: the keys of _sessions
TrackedIds == {_sessions[i].session_id : i \in DOMAIN _sessions}

\* path.stat().st_mtime if path.exists() else float("inf")
MtimeKey(info) ==
    IF fsys[info.path].exists THEN fsys[info.path].mtime ELSE Infinity

\* an eviction that picks the most recently modified session
get_oldest_session_id_Newest ==
    IF _sessions = <<>> THEN None
    ELSE LET i == CHOOSE k \in DOMAIN _sessions :
                      \A j \in DOMAIN _sessions :
                          MtimeKey(_sessions[j]) <= MtimeKey(_sessions[k])
         IN  _sessions[i].session_id

\* get_oldest_session_id(): min() over _sessions.items() returns the first
\* item, in the order of the dict, whose key is the smallest
get_oldest_session_id ==
    IF _sessions = <<>> THEN None
    ELSE LET i == CHOOSE k \in DOMAIN _sessions :
                      /\ \A j \in DOMAIN _sessions :
                             MtimeKey(_sessions[k]) <= MtimeKey(_sessions[j])
                      /\ \A j \in 1..(k - 1) :
                             MtimeKey(_sessions[j]) > MtimeKey(_sessions[k])
         IN  _sessions[i].session_id

\* a limit test that lets one session too many in
AtLimit_OffByOne(n) == n > MAX_SESSIONS

\* len(_sessions) >= MAX_SESSIONS
AtLimit(n) == n >= MAX_SESSIONS

\* an add_session that falls through to the add when eviction is disabled
RejectsAtLimit_Never(evict_oldest) == FALSE

\* at the limit: if evict_oldest: ... else: return None, None
RejectsAtLimit(evict_oldest) == ~evict_oldest

\* an add_session without the test for a session that is already tracked
AlreadyTracked_Never(session_id) == FALSE

\* if session_id in _sessions
AlreadyTracked(session_id) == session_id \in TrackedIds

\* _sessions.pop(session_id)
Pop(dict, session_id) ==
    SelectSeq(dict, LAMBDA x : x.session_id # session_id)

\* _sessions[session_id]
InfoOf(session_id) ==
    LET i == CHOOSE k \in DOMAIN _sessions : _sessions[k].session_id = session_id
    IN  _sessions[i]

OpenOutcome(path) == IF fsys[path].exists THEN "present" ELSE "missing"

\* no file at a path
Absent == [exists |-> FALSE, mtime |-> 0, content |-> <<>>]

\* the file at path, last modified at time t
Written(path, t) == [exists |-> TRUE, mtime |-> t, content |-> SessionFileText(path)]

\* the path of a call that takes none
NoPath == [dir |-> None, stem |-> None]

NoCall == [fn |-> "none", path |-> NoPath, evict_oldest |-> FALSE, session_id |-> None]

NoResult == [info |-> None, evicted_id |-> None, removed |-> FALSE]

RegistryInit ==
    /\ fsys \in [Paths -> [exists : BOOLEAN, mtime : 0..MaxMtime,
                           content : {SessionFileText(p) : p \in Paths} \cup {<<>>}]]
    /\ \A p \in Paths : fsys[p] \in {Absent} \cup {Written(p, t) : t \in Mtimes}
    /\ _sessions = <<>>
    /\ _known_session_files = {}
    /\ call = NoCall
    /\ result = NoResult

\* add_session(path, evict_oldest) where open(path) meets st: the registry
\* and the known session files afterwards, and the pair returned
AddSession(path, evict_oldest, st) ==
    LET session_id == get_session_id(path)
        oldest_id  == get_oldest_session_id
        evicting   == /\ AtLimit(Len(_sessions))
                      /\ evict_oldest
                      /\ oldest_id # None
        tailer     == ReadNewLines(NewTailer, st, fsys[path].content).tailer
        info       == [session_id |-> session_id, path |-> path, tailer |-> tailer]
        unchanged  == [sessions |-> _sessions, known |-> _known_session_files,
                       result |-> NoResult]
    IN  IF AlreadyTracked(session_id)
        THEN unchanged
        ELSE IF AtLimit(Len(_sessions)) /\ RejectsAtLimit(evict_oldest)
        THEN unchanged
        ELSE [sessions |-> Append(IF evicting THEN Pop(_sessions, oldest_id)
                                              ELSE _sessions, info),
              known    |-> (IF evicting
                            THEN _known_session_files \ {InfoOf(oldest_id).path}
                            ELSE _known_session_files) \cup {path},
              result   |-> [info |-> session_id,
                            evicted_id |-> IF evicting THEN oldest_id ELSE None,
                            removed |-> FALSE]]

\* a call of add_session(path, evict_oldest)
add_session(path, evict_oldest) ==
    LET r == AddSession(path, evict_oldest, OpenOutcome(path))
    IN  /\ call' = [fn |-> "add_session", path |-> path,
                    evict_oldest |-> evict_oldest,
                    session_id |-> get_session_id(path)]
        /\ _sessions' = r.sessions
        /\ _known_session_files' = r.known
        /\ result' = r.result
        /\ UNCHANGED fsys
        /\ UNCHANGED outsideRegistry

\* remove_session(session_id)
remove_session(session_id) ==
    /\ call' = [fn |-> "remove_session", path |-> NoPath,
                evict_oldest |-> FALSE, session_id |-> session_id]
    /\ IF session_id \in TrackedIds
       THEN /\ _sessions' = Pop(_sessions, session_id)
            /\ _known_session_files' =
                   _known_session_files \ {InfoOf(session_id).path}
            /\ result' = [NoResult EXCEPT !.removed = TRUE]
       ELSE /\ result' = NoResult
            /\ UNCHANGED <<_sessions, _known_session_files>>
    /\ UNCHANGED fsys
    /\ UNCHANGED outsideRegistry

\* a session file is created or written: it exists, with modification time t
WriteFile(path, t) ==
    /\ fsys' = [fsys EXCEPT ![path] = Written(path, t)]
    /\ UNCHANGED <<_sessions, _known_session_files, call, result>>
    /\ UNCHANGED outsideRegistry

\* a session file is deleted
DeleteFile(path) ==
    /\ fsys[path].exists
    /\ fsys' = [fsys EXCEPT ![path] = Absent]
    /\ UNCHANGED <<_sessions, _known_session_files, call, result>>
    /\ UNCHANGED outsideRegistry

NextRegistry ==
    \/ \E path \in Paths, evict_oldest \in BOOLEAN : add_session(path, evict_oldest)
    \/ \E session_id \in Stems : remove_session(session_id)
    \/ \E path \in Paths, t \in Mtimes : WriteFile(path, t)
    \/ \E path \in Paths : DeleteFile(path)

-----------------------------------------------------------------------------
(* The list of sessions (get_sessions_list of server.py)                   *)

\* get_sessions_list: the sort key, the modification time of the file or 0
SortKey_MissingFirst(info) == MtimeKey(info)

SortKey(info) ==
    IF fsys[info.path].exists THEN fsys[info.path].mtime ELSE 0

\* sorted(..., reverse=True) step by step: info goes behind the elements
\* whose key is not smaller, so equal keys keep the order of the input
InsertByKey(sorted, info) ==
    LET ahead == {i \in DOMAIN sorted : SortKey(sorted[i]) >= SortKey(info)}
        k     == IF ahead = {} THEN 0 ELSE Max(ahead)
    IN  SubSeq(sorted, 1, k) \o <<info>> \o SubSeq(sorted, k + 1, Len(sorted))

RECURSIVE SortedSessions(_, _, _)
SortedSessions(values, i, sorted) ==
    IF i > Len(values) THEN sorted
    ELSE SortedSessions(values, i + 1, InsertByKey(sorted, values[i]))

\* get_sessions_list(): the "id" of the dicts it returns, in their order
GetSessionsList ==
    LET sorted_sessions == SortedSessions(_sessions, 1, <<>>)
    IN  [i \in DOMAIN sorted_sessions |-> sorted_sessions[i].session_id]

\* no call of get_sessions_list yet
NotListed == [called |-> FALSE, ids |-> <<>>]

\* a call of get_sessions_list()
get_sessions_list ==
    /\ listed' = [called |-> TRUE, ids |-> GetSessionsList]
    /\ UNCHANGED outsideList

\* the sessions of some paths, each added when its file was there
RECURSIVE Registered(_)
Registered(paths) ==
    IF paths = <<>> THEN <<>>
    ELSE Append(Registered(SubSeq(paths, 1, Len(paths) - 1)),
                LET path == paths[Len(paths)]
                IN  [session_id |-> get_session_id(path), path |-> path,
                     tailer |-> ReadNewLines(NewTailer, "present",
                                             SessionFileText(path)).tailer])

\* a registry of up to MAX_SESSIONS sessions, in any order of insertion,
\* whose files have any modification times or are gone
ListInit ==
    /\ fsys \in [Paths -> [exists : BOOLEAN, mtime : 0..MaxMtime,
                           content : {SessionFileText(p) : p \in Paths} \cup {<<>>}]]
    /\ \A p \in Paths : fsys[p] \in {Absent} \cup {Written(p, t) : t \in Mtimes}
    /\ \E n \in 0..MAX_SESSIONS :
           \E paths \in [1..n -> Paths] :
               /\ \A i, j \in 1..n : i # j => paths[i] # paths[j]
               /\ _sessions = Registered(paths)
               /\ _known_session_files = {paths[i] : i \in 1..n}
    /\ call = NoCall
    /\ result = NoResult
    /\ listed = NotListed

-----------------------------------------------------------------------------
(* Subscribers, the watch loop and the live path of server.py *)

\* the subscribers; a subscriber stands for its asyncio.Queue
Clients == {"c1", "c2"}

\* an event put on the queues or yielded to a subscriber: a message event
\* with the session id and the type of its entry, or an event of another
\* kind, whose data is left out
Event(event_type, session_id, type) ==
    [event |-> event_type, session_id |-> session_id, type |-> type]

\* asyncio.Queue.full()
Full(q) == Len(q) >= QueueMaxsize

\* a broadcast that keeps the subscribers whose queue is full
DeadClients_None(clients, qs) == {}

\* dead_clients of broadcast_event: the queues whose put_nowait raised
\* asyncio.QueueFull
DeadClients(clients, qs) == {c \in clients : Full(qs[c])}

\* a put that makes room by dropping the oldest event of a full queue
PutNowait_DropOldest(q, ev) == Append(IF Full(q) THEN Tail(q) ELSE q, ev)

\* queue.put_nowait(ev) on a queue, full or not: a full queue is left as it is
PutNowait(q, ev) == IF Full(q) THEN q ELSE Append(q, ev)

\* broadcast_event(event_type, data) on the client set and queues of b
BroadcastEvent(b, ev) ==
    [clients |-> b.clients \ DeadClients(b.clients, b.queues),
     queues  |-> [c \in Clients |->
                     IF c \in b.clients THEN PutNowait(b.queues[c], ev)
                                        ELSE b.queues[c]]]

\* a sequence of broadcast_event calls
RECURSIVE BroadcastAll(_, _)
BroadcastAll(b, evs) ==
    IF evs = <<>> THEN b ELSE BroadcastAll(BroadcastEvent(b, Head(evs)), Tail(evs))

\* render_message(entry): the HTML of an entry, "" for an entry that is not
\* shown; visible are the entry types the renderer shows
render_message(entry, visible) == IF entry.type \in visible THEN "html" ELSE ""

\* process_session_messages(session_id) for a tracked session where open()
\* meets st: the registry afterwards and the entries broadcast as messages
ProcessSessionMessages(session_id, st, visible) ==
    LET info == InfoOf(session_id)
        r    == ReadNewLines(info.tailer, st, fsys[info.path].content)
    IN  [sessions |-> [i \in DOMAIN _sessions |->
                          IF _sessions[i].session_id = session_id
                          THEN [_sessions[i] EXCEPT !.tailer = r.tailer]
                          ELSE _sessions[i]],
         messages |-> SelectSeq(r.results,
                                LAMBDA e : render_message(e, visible) # "")]

\* the deliveries are not recorded (every specification but SpecDeliver)
NotRecorded ==
    [on |-> FALSE, count |-> [c \in Clients |-> [s \in Stems |-> 0]]]

\* nothing was yielded to any subscriber yet
NothingYielded ==
    [on |-> TRUE, count |-> [c \in Clients |-> [s \in Stems |-> 0]]]

\* the record after subscriber c connected anew
Connected(rec, c) == [rec EXCEPT !.count[c] = [s \in Stems |-> 0]]

\* the record after the generator of c yielded ev
Yielded(rec, c, ev) ==
    IF rec.on /\ ev.event = "message"
    THEN [rec EXCEPT !.count[c][ev.session_id] = @ + 1]
    ELSE rec

\* a lock that is handed out while it is held
Unlocked_Always(l) == TRUE

\* async with _get_sessions_lock() goes on when nobody holds the lock
Unlocked(l) == l = None

\* what open(path) meets: io_ok is FALSE when opening a file that exists
\* fails with an IOError
OpenStatus(path, io_ok) ==
    IF ~fsys[path].exists THEN "missing"
    ELSE IF io_ok THEN "present" ELSE "unreadable"

\* the body of watch_loop for one change reported by watchfiles.awatch, run
\* under the sessions lock: an added file is added as a session; a modified
\* file has its new messages broadcast when it is tracked and is added when
\* it is not known
HandleChange(change_type, path, io_ok, visible) ==
    LET session_id == get_session_id(path)
        st         == OpenStatus(path, io_ok)
        tracked    == session_id \in TrackedIds
        adds       == \/ change_type = "added"
                      \/ /\ change_type = "modified"
                         /\ ~tracked
                         /\ path \notin _known_session_files
        processes  == change_type = "modified" /\ tracked
        a          == AddSession(path, TRUE, st)
        p          == ProcessSessionMessages(session_id, st, visible)
        added      == adds /\ a.result.info # None
        evicted    == IF adds THEN a.result.evicted_id ELSE None
        events     ==
            IF adds
            THEN (IF evicted # None
                  THEN <<Event("session_removed", None, "none")>> ELSE <<>>)
                 \o (IF added
                     THEN <<Event("session_added", None, "none")>> ELSE <<>>)
            ELSE IF processes
            THEN [i \in 1..Len(p.messages) |->
                     Event("message", session_id, p.messages[i].type)]
            ELSE <<>>
        b          == BroadcastAll([clients |-> _clients, queues |-> queues], events)
    IN  /\ Unlocked(lock)
        /\ _sessions' = IF adds THEN a.sessions
                        ELSE IF processes THEN p.sessions ELSE _sessions
        /\ _known_session_files' = IF adds THEN a.known ELSE _known_session_files
        /\ added_at' = [s \in Stems |->
                           IF added /\ s = session_id THEN Len(fsys[path].content)
                           ELSE IF s = evicted THEN 0
                           ELSE added_at[s]]
        /\ emitted' = [s \in Stems |->
                          IF added /\ s = session_id THEN <<>>
                          ELSE IF s = evicted THEN <<>>
                          ELSE IF processes /\ s = session_id
                               THEN emitted[s] \o p.messages
                          ELSE emitted[s]]
        /\ _clients' = b.clients
        /\ queues' = b.queues
        /\ UNCHANGED <<fsys, call, result, flaky, lock, gen, received>>
        /\ UNCHANGED outsideServer

\* whether open(path) succeeds, for a file that exists
OpenResults(path) ==
    IF fsys[path].exists /\ path \in flaky THEN BOOLEAN ELSE {TRUE}

\* the entry types render_message shows, where the change has entries
\* rendered: every message, or the assistant's messages only
Renderers(change_type, path) ==
    IF change_type = "modified" /\ get_session_id(path) \in TrackedIds
    THEN {{"user", "assistant"}, {"assistant"}}
    ELSE {{"user", "assistant"}}

\* watch_loop handles one change
watch_loop(change_type, path) ==
    \E io_ok \in OpenResults(path), visible \in Renderers(change_type, path) :
        HandleChange(change_type, path, io_ok, visible)

\* the session file that is being written in the live specification
Growing == [dir |-> "project", stem |-> "1"]

\* the lines written to it: user and assistant entries
LiveTexts == {<<"U", "}">>, <<"A", "}">>}

\* the writer appends one character to the growing session file (creating
\* the file with the first); t is the modification time the append leaves
AppendLive(c, t) ==
    LET f == fsys[Growing].content
    IN  /\ Len(f) < MaxLiveLen
        /\ t >= fsys[Growing].mtime
        /\ IF c = NL
           THEN OpenLine(f) \in LiveTexts
           ELSE \E l \in LiveTexts : IsPrefix(OpenLine(f) \o <<c>>, l)
        /\ fsys' = [fsys EXCEPT ![Growing] =
                       [exists |-> TRUE, mtime |-> t, content |-> Append(f, c)]]
        /\ UNCHANGED <<_sessions, _known_session_files, call, result>>
        /\ UNCHANGED <<liveVars, streamVars, received>>
        /\ UNCHANGED outsideServer

NextLive ==
    \/ \E c \in {"U", "A", "}", NL}, t \in Mtimes : AppendLive(c, t)
    \/ \E change_type \in {"added", "modified"}, path \in Paths :
           watch_loop(change_type, path)

\* no session created, nothing broadcast; open() does not fail
LiveIdle ==
    /\ emitted = [s \in Stems |-> <<>>]
    /\ added_at = [s \in Stems |-> 0]
    /\ flaky = {}

\* no session created, nothing broadcast; open() can fail on every file
LiveStart ==
    /\ emitted = [s \in Stems |-> <<>>]
    /\ added_at = [s \in Stems |-> 0]
    /\ flaky = Paths

\* the growing file is not there yet, the other session files are complete
LiveInit ==
    /\ fsys = [p \in Paths |-> IF p = Growing THEN Absent ELSE Written(p, 1)]
    /\ _sessions = <<>>
    /\ _known_session_files = {}
    /\ call = NoCall
    /\ result = NoResult

-----------------------------------------------------------------------------
(* event_generator of server.py: one generator per subscriber *)

\* An event_generator is suspended at a yield (or has not started, or has
\* ended).  pc names the yield: "sessions", "catchup" (a message of the
\* catch-up, inside async with), "reinit", "complete", "live" (an event
\* of the queue or a ping); "start" and "done" are before the first and
\* after the last step.  idx is the place of the for loop over
\* _sessions.items() (the registry does not change while the generator holds
\* the lock, so the place is an index; 0 outside the loop), existing is what
\* is left of the list read_all() returned, out is the event yielded last.
GenAt(pc, idx, existing, timed_out, out) ==
    [pc |-> pc, idx |-> idx, existing |-> existing,
     catchup_timed_out |-> timed_out, out |-> out]

NoEvent == Event("none", None, "none")

NoGenerator == GenAt("start", 0, <<>>, FALSE, NoEvent)

\* a generator that has ended; its queue is dropped with it (the model
\* empties it)
Ended(timed_out) == GenAt("done", 0, <<>>, timed_out, NoEvent)

\* a generator that goes on to catchup_complete after the timeout
OnCatchupTimeout_GoesOn(idx) ==
    GenAt("complete", 0, <<>>, TRUE, Event("catchup_complete", None, "none"))

\* catchup_timed_out = True; break; break; leaving async with; the yield of
\* the reinitialize event
OnCatchupTimeout(idx) ==
    GenAt("reinit", idx, <<>>, TRUE, Event("reinitialize", None, "none"))

\* The generator runs on from inside async with to its next yield.  budget
\* is the number of entries for which time.monotonic() - catchup_start is
\* found within CATCHUP_TIMEOUT in this run; the check after them finds the
\* timeout.
RECURSIVE RunCatchup(_, _, _, _)
RunCatchup(idx, existing, budget, visible) ==
    IF existing = <<>>
    THEN IF idx >= Len(_sessions)
         THEN GenAt("complete", 0, <<>>, FALSE,
                    Event("catchup_complete", None, "none"))
         ELSE LET info == _sessions[idx + 1]
              IN  RunCatchup(idx + 1,
                             ReadAll(info.tailer, OpenOutcome(info.path),
                                     fsys[info.path].content).results,
                             budget, visible)
    ELSE IF budget = 0
    THEN OnCatchupTimeout(idx)
    ELSE IF render_message(Head(existing), visible) # ""
    THEN GenAt("catchup", idx, Tail(existing), FALSE,
               Event("message", _sessions[idx].session_id, Head(existing).type))
    ELSE RunCatchup(idx, Tail(existing), budget - 1, visible)

\* the budgets that differ: a file of the model holds one entry, so a run
\* checks the time for MAX_SESSIONS entries at most
Budgets == 0..MAX_SESSIONS

\* a subscriber connects: event_generator up to the yield of the sessions
\* event, with its new queue in _clients
connect(c) ==
    /\ gen[c].pc \in {"start", "done"}
    /\ _clients' = _clients \cup {c}
    /\ queues' = [queues EXCEPT ![c] = <<>>]
    /\ gen' = [gen EXCEPT ![c] =
                  GenAt("sessions", 0, <<>>, FALSE, Event("sessions", None, "none"))]
    /\ received' = Connected(received, c)
    /\ UNCHANGED lock
    /\ UNCHANGED <<registryVars, liveVars>>
    /\ UNCHANGED outsideServer

\* the generator is resumed before or inside the catch-up and runs to its
\* next yield: it takes the lock when it enters async with and gives it
\* back when it leaves
catchup(c, budget, visible) ==
    /\ \/ gen[c].pc = "sessions" /\ Unlocked(lock)
       \/ gen[c].pc = "catchup"
    /\ gen' = [gen EXCEPT ![c] =
                  RunCatchup(gen[c].idx, gen[c].existing, budget, visible)]
    /\ lock' = IF gen'[c].pc = "catchup" THEN c ELSE None
    /\ received' = Yielded(received, c, gen'[c].out)
    /\ UNCHANGED <<_clients, queues>>
    /\ UNCHANGED <<registryVars, liveVars>>
    /\ UNCHANGED outsideServer

\* a generator that takes the events of its queue during the catch-up too
Streaming_Early(pc) == pc \in {"catchup", "complete", "live"}

\* the generator is at the yield of catchup_complete or in the loop after it
Streaming(pc) == pc \in {"complete", "live"}

\* the generator is resumed after the catch-up: it ends when the request is
\* disconnected, yields the next event of its queue, or yields a ping when
\* wait_for(queue.get()) times out on an empty queue
live(c, disconnected) ==
    /\ Streaming(gen[c].pc)
    /\ IF disconnected
       THEN /\ gen' = [gen EXCEPT ![c] = Ended(FALSE)]
            /\ _clients' = _clients \ {c}
            /\ queues' = [queues EXCEPT ![c] = <<>>]
       ELSE IF queues[c] # <<>>
       THEN /\ gen' = [gen EXCEPT ![c] =
                          GenAt("live", 0, <<>>, FALSE, Head(queues[c]))]
            /\ queues' = [queues EXCEPT ![c] = Tail(queues[c])]
            /\ UNCHANGED _clients
       ELSE /\ gen' = [gen EXCEPT ![c] =
                          GenAt("live", 0, <<>>, FALSE,
                                Event("ping", None, "none"))]
            /\ UNCHANGED <<_clients, queues>>
    /\ received' = Yielded(received, c, gen'[c].out)
    /\ UNCHANGED lock
    /\ UNCHANGED <<registryVars, liveVars>>
    /\ UNCHANGED outsideServer

\* the generator is resumed after the reinitialize event: return, and the
\* finally clause
finish(c) ==
    /\ gen[c].pc = "reinit"
    /\ gen' = [gen EXCEPT ![c] = Ended(gen[c].catchup_timed_out)]
    /\ _clients' = _clients \ {c}
    /\ queues' = [queues EXCEPT ![c] = <<>>]
    /\ UNCHANGED <<lock, received>>
    /\ UNCHANGED <<registryVars, liveVars>>
    /\ UNCHANGED outsideServer

\* the response is torn down while the generator is suspended: the exception
\* raised at the yield leaves async with, if the generator is inside, and
\* runs the finally clause
cancel(c) ==
    /\ gen[c].pc \in {"sessions", "catchup", "reinit", "complete", "live"}
    /\ gen' = [gen EXCEPT ![c] = Ended(gen[c].catchup_timed_out)]
    /\ _clients' = _clients \ {c}
    /\ queues' = [queues EXCEPT ![c] = <<>>]
    /\ lock' = IF lock = c THEN None ELSE lock
    /\ UNCHANGED <<registryVars, liveVars, received>>
    /\ UNCHANGED outsideServer

NextCatchup ==
    \/ \E c \in Clients : connect(c)
    \/ \E c \in Clients, budget \in Budgets :
           \E visible \in {{"user", "assistant"}, {"assistant"}} :
               catchup(c, budget, visible)
    \/ \E c \in Clients, disconnected \in BOOLEAN : live(c, disconnected)
    \/ \E c \in Clients : finish(c)
    \/ \E c \in Clients : cancel(c)
    \/ \E change_type \in {"added", "modified"}, path \in Paths :
           watch_loop(change_type, path)

\* no subscriber, the sessions lock free
StreamIdle ==
    /\ _clients = {}
    /\ queues = [c \in Clients |-> <<>>]
    /\ lock = None
    /\ gen = [c \in Clients |-> NoGenerator]

\* the lists of session files lifespan can find at startup: up to
\* MAX_SESSIONS files, find_recent_sessions(limit=MAX_SESSIONS)
RecentSessions ==
    {ps \in UNION {[1..n -> Paths] : n \in 0..MAX_SESSIONS} :
        \A i, j \in DOMAIN ps : i # j => ps[i] # ps[j]}

\* the registry after the startup part of lifespan, which calls
\* add_session(path, evict_oldest=False) for each file found, before the
\* watch task is created and before a request is served
Lifespan(recent) ==
    [i \in DOMAIN recent |->
        [session_id |-> get_session_id(recent[i]),
         path       |-> recent[i],
         tailer     |-> ReadNewLines(NewTailer, "present",
                                     SessionFileText(recent[i])).tailer]]

\* the server when it starts to serve: every session file is on disk (the
\* files lifespan did not find are written before the first change is
\* reported), the sessions of the files found are tracked, open() does not
\* fail
CatchupInit ==
    /\ fsys = [p \in Paths |-> Written(p, 1)]
    /\ \E recent \in RecentSessions :
           /\ _sessions = Lifespan(recent)
           /\ _known_session_files = {recent[i] : i \in DOMAIN recent}
           /\ added_at = [s \in Stems |->
                             IF \E i \in DOMAIN recent : recent[i].stem = s
                             THEN Len(SessionFileText([dir |-> "project", stem |-> s]))
                             ELSE 0]
    /\ emitted = [s \in Stems |-> <<>>]
    /\ flaky = {}
    /\ call = NoCall
    /\ result = NoResult

-----------------------------------------------------------------------------
(* The idle tracker (summarizer/tracker.py)                                *)
(*                                                                         *)
(* Everything runs on one event loop, so a handler runs undisturbed up to  *)
(* its next await.  An idle timer is a task asleep in asyncio.sleep: the   *)
(* task _timers refers to is the only one of its session that is neither   *)
(* cancelled nor done, since every statement that replaces or drops the    *)
(* reference cancels the task first, and a task cancelled in its sleep     *)
(* never runs _on_idle_timeout.  A summarize callback that was invoked is  *)
(* awaited by the task that invoked it until it returns or raises.         *)
(* summary_started_at keeps what the stuck check asks of it: whether more  *)
(* than SUMMARY_TIMEOUT seconds have passed since ("overdue") or not       *)
(* ("recent").  last_activity decides nothing and is left out.             *)

\* the session ids the tracker hears of
SessionIds == {"s1", "s2"}

\* summarize callbacks of one session that are awaited at once, at most: the
\* code sets no limit, the model stops invoking at this one
MaxInFlight == 2

\* TrackedSession: state of SummaryState, summary_started_at
Tracked(state, summary_started_at) ==
    [state |-> state, summary_started_at |-> summary_started_at]

\* session_id is not a key of IdleTracker.sessions
NotTracked == Tracked("untracked", None)

\* TrackedSession.mark_active: a finished (or fresh) session is pending again
MarkActive_DoneOnly(tracked) ==
    IF tracked.state = "done"
    THEN Tracked("pending", tracked.summary_started_at)
    ELSE tracked

MarkActive(tracked) ==
    IF tracked.state \in {"done", "failed", "none"}
    THEN Tracked("pending", tracked.summary_started_at)
    ELSE tracked

\* a mark that leaves the start time out
MarkSummarizing_NoStart(tracked) == Tracked("summarizing", None)

\* TrackedSession.mark_summarizing
MarkSummarizing(tracked) == Tracked("summarizing", "recent")

\* TrackedSession.mark_done
MarkDone_Failed(tracked) == Tracked("failed", None)

MarkDone(tracked) == Tracked("done", None)

\* TrackedSession.mark_failed
MarkFailed_Not(tracked) == tracked

MarkFailed(tracked) == Tracked("failed", None)

\* what the awaited callback ends with: it returns True or False, or raises
Outcomes == {"true", "false", "raise"}

\* _on_idle_timeout after the await: the mark the outcome leads to
AfterCallback_AlwaysDone(tracked, outcome) == MarkDone(tracked)

AfterCallback(tracked, outcome) ==
    IF outcome = "true" THEN MarkDone(tracked) ELSE MarkFailed(tracked)

\* the step the tracker took last
Step(name, session_id, arg) ==
    [op |-> name, session_id |-> session_id, arg |-> arg]

\* on_session_activity: the test that makes the call return at once
Ignored_Never(shut) == FALSE

Ignored(shut) == shut

\* IdleTracker.on_session_activity(session_id)
on_session_activity(session_id) ==
    /\ IF Ignored(_shutdown)
       THEN UNCHANGED <<sessions, _timers>>
       ELSE /\ sessions' =
                [sessions EXCEPT ![session_id] =
                    IF sessions[session_id] # NotTracked
                    THEN IF sessions[session_id].state # "summarizing"
                         THEN MarkActive(sessions[session_id])
                         ELSE sessions[session_id]
                    ELSE Tracked("pending", None)]
            /\ _timers' = [_timers EXCEPT ![session_id] = TRUE]
    /\ last' = Step("on_session_activity", session_id, None)
    /\ UNCHANGED <<inflight, _shutdown, _stuck_check_task>>
    /\ UNCHANGED outsideTracker

\* a test that lets every unfinished session through
IsPending_NotDone(tracked) == tracked # NotTracked /\ tracked.state # "done"

\* _on_idle_timeout: tracked is there and tracked.state is PENDING
IsPending(tracked) == tracked # NotTracked /\ tracked.state = "pending"

\* the idle timer of session_id wakes up: _schedule_idle_timer's task runs
\* _on_idle_timeout up to the await of the summarize callback; found is
\* whether get_session_callback returns the session
idle_timer(session_id, found) ==
    /\ _timers[session_id]
    /\ IF _shutdown
       THEN UNCHANGED <<sessions, _timers, inflight>>
       ELSE /\ _timers' = [_timers EXCEPT ![session_id] = FALSE]
            /\ IF IsPending(sessions[session_id]) /\ found
               THEN /\ inflight[session_id] < MaxInFlight
                    /\ sessions' =
                        [sessions EXCEPT ![session_id] = MarkSummarizing(@)]
                    /\ inflight' = [inflight EXCEPT ![session_id] = @ + 1]
               ELSE UNCHANGED <<sessions, inflight>>
    /\ last' = Step("idle_timer", session_id, IF found THEN "found" ELSE None)
    /\ UNCHANGED <<_shutdown, _stuck_check_task>>
    /\ UNCHANGED outsideTracker

\* an awaited summarize callback of session_id ends: the rest of
\* _on_idle_timeout
callback_ends(session_id, outcome) ==
    /\ inflight[session_id] > 0
    /\ inflight' = [inflight EXCEPT ![session_id] = @ - 1]
    /\ sessions' = [sessions EXCEPT ![session_id] = AfterCallback(@, outcome)]
    /\ last' = Step("callback_ends", session_id, outcome)
    /\ UNCHANGED <<_timers, _shutdown, _stuck_check_task>>
    /\ UNCHANGED outsideTracker

\* more than SUMMARY_TIMEOUT seconds have passed since session_id began to
\* be summarized
time_passes(session_id) ==
    /\ sessions[session_id].summary_started_at = "recent"
    /\ sessions' = [sessions EXCEPT ![session_id].summary_started_at = "overdue"]
    /\ last' = Step("time_passes", session_id, None)
    /\ UNCHANGED <<_timers, inflight, _shutdown, _stuck_check_task>>
    /\ UNCHANGED outsideTracker

\* IdleTracker._check_stuck_summarizations, the sweep of _stuck_check_loop
_check_stuck_summarizations ==
    /\ _stuck_check_task = "running"
    /\ sessions' =
        [s \in SessionIds |->
            IF /\ ~_shutdown
               /\ sessions[s].state = "summarizing"
               /\ sessions[s].summary_started_at = "overdue"
            THEN MarkFailed(sessions[s])
            ELSE sessions[s]]
    /\ last' = Step("_check_stuck_summarizations", None, None)
    /\ UNCHANGED <<_timers, inflight, _shutdown, _stuck_check_task>>
    /\ UNCHANGED outsideTracker

\* IdleTracker.mark_session_summarized(session_id)
mark_session_summarized(session_id) ==
    /\ _timers' = [_timers EXCEPT ![session_id] = FALSE]
    /\ sessions' = [sessions EXCEPT ![session_id] = MarkDone(@)]
    /\ last' = Step("mark_session_summarized", session_id, None)
    /\ UNCHANGED <<inflight, _shutdown, _stuck_check_task>>
    /\ UNCHANGED outsideTracker

\* IdleTracker.shutdown()
shutdown ==
    /\ _shutdown' = TRUE
    /\ _timers' = [s \in SessionIds |-> FALSE]
    /\ _stuck_check_task' =
           IF _stuck_check_task # None THEN "done" ELSE _stuck_check_task
    /\ last' = Step("shutdown", None, None)
    /\ UNCHANGED <<sessions, inflight>>
    /\ UNCHANGED outsideTracker

\* IdleTracker.start(): the task of _stuck_check_loop is created once; its
\* loop ends before the first sweep if the tracker is shut down already
start ==
    /\ _stuck_check_task' =
           IF _stuck_check_task = None
           THEN IF _shutdown THEN "done" ELSE "running"
           ELSE _stuck_check_task
    /\ last' = Step("start", None, None)
    /\ UNCHANGED <<sessions, _timers, inflight, _shutdown>>
    /\ UNCHANGED outsideTracker

\* a task that awaits the summarize callback of session_id is cancelled:
\* CancelledError is no Exception, so it passes _on_idle_timeout and ends
\* the task in idle_timer's handler
task_cancelled(session_id) ==
    /\ inflight[session_id] > 0
    /\ inflight' = [inflight EXCEPT ![session_id] = @ - 1]
    /\ last' = Step("task_cancelled", session_id, None)
    /\ UNCHANGED <<sessions, _timers, _shutdown, _stuck_check_task>>
    /\ UNCHANGED outsideTracker

\* activity, idle timers, callbacks, the stuck check and shutdown
NextIdle ==
    \/ start
    \/ \E session_id \in SessionIds : on_session_activity(session_id)
    \/ \E session_id \in SessionIds, found \in BOOLEAN :
           idle_timer(session_id, found)
    \/ \E session_id \in SessionIds, outcome \in Outcomes :
           callback_ends(session_id, outcome)
    \/ \E session_id \in SessionIds : time_passes(session_id)
    \/ _check_stuck_summarizations
    \/ shutdown

\* the same, and summaries made outside the tracker
NextTracker ==
    \/ start
    \/ \E session_id \in SessionIds : task_cancelled(session_id)
    \/ \E session_id \in SessionIds : on_session_activity(session_id)
    \/ \E session_id \in SessionIds, found \in BOOLEAN :
           idle_timer(session_id, found)
    \/ \E session_id \in SessionIds, outcome \in Outcomes :
           callback_ends(session_id, outcome)
    \/ \E session_id \in SessionIds : time_passes(session_id)
    \/ _check_stuck_summarizations
    \/ \E session_id \in SessionIds : mark_session_summarized(session_id)
    \/ shutdown

\* IdleTracker.__init__
TrackerInit ==
    /\ sessions = [s \in SessionIds |-> NotTracked]
    /\ _timers = [s \in SessionIds |-> FALSE]
    /\ inflight = [s \in SessionIds |-> 0]
    /\ _shutdown = FALSE
    /\ _stuck_check_task = None
    /\ last = Step("init", None, None)

-----------------------------------------------------------------------------
(* Token usage of a session file (backends/claude_code/pricing.py, and the *)
(* function of the same name in claude_code_session_explorer/tailer.py)    *)
(*                                                                         *)
(* Of an assistant entry the model keeps message.id, requestId and         *)
(* message.usage.output_tokens; the usage dict is not empty.  An id is a   *)
(* string, here a sequence of characters, none of them a colon.            *)

\* assistant entries of one session file, at most
MaxRecords == 3

\* output_tokens of one entry, at most
MaxTokens == 2

\* message ids and request ids
MsgIds == {<<"m">>, <<"m", "x">>}

RequestIds == {<<"r">>, <<"x", "r">>}

\* an assistant entry with its usage
UsageRecords ==
    [id : MsgIds, requestId : RequestIds, usage : {"given"},
     input_tokens : {0}, output_tokens : 0..MaxTokens]

\* message.get("id") or entry.get("requestId") is None or "": not truthy
NoId == <<>>

\* assistant entries of which some lack the message id or the request id and
\* some have an empty usage ({}: its tokens count as 0); those of one key
\* differ in their input_tokens
DedupRecords ==
    [id : {<<"m">>}, requestId : {NoId} \cup RequestIds,
     usage : {"given"}, input_tokens : 1..2, output_tokens : 1..2]
    \cup [id : {NoId}, requestId : {NoId, <<"r">>},
          usage : {"given"}, input_tokens : 1..2, output_tokens : 1..2]
    \cup [id : {NoId, <<"m">>}, requestId : {<<"r">>},
          usage : {"empty"}, input_tokens : {0}, output_tokens : {0}]

\* f"{msg_id}:{request_id}"
DedupHash_NoColon(msg_id, request_id) == msg_id \o request_id

DedupHash(msg_id, request_id) == msg_id \o <<":">> \o request_id

\* a key that is the same for every entry without dedup info
UniqueKey_Same(n) == <<"no_dedup_">>

\* f"no_dedup_{len(dedup_messages)}"
UniqueKey(n) == <<"no_dedup_", ToString(n)>>

\* a comparison that lets a later entry with the same output_tokens in
Replaces_OnTie(output_tokens, existing) == output_tokens >= existing

\* output_tokens > existing[2]
Replaces(output_tokens, existing) == output_tokens > existing

\* the loop of pricing.get_session_token_usage over the entries from i on:
\* dedup_messages, as the set of its items (key, output_tokens,
\* input_tokens); an assignment to a key replaces the item of that key
RECURSIVE DedupMessages(_, _, _)
DedupMessages(entries, i, dedup_messages) ==
    IF i > Len(entries) THEN dedup_messages
    ELSE LET entry        == entries[i]
             item(key)    == <<key, entry.output_tokens, entry.input_tokens>>
             dedup_hash   == DedupHash(entry.id, entry.requestId)
             existing     == {x \in dedup_messages : x[1] = dedup_hash}
             replaces     ==
                 \A x \in existing : Replaces(entry.output_tokens, x[2])
             unique_key   == UniqueKey(Cardinality(dedup_messages))
         IN  DedupMessages(entries, i + 1,
                 IF entry.usage = "empty"
                 THEN dedup_messages
                 ELSE IF entry.id # NoId /\ entry.requestId # NoId
                 THEN IF replaces
                      THEN (dedup_messages \ existing) \cup {item(dedup_hash)}
                      ELSE dedup_messages
                 ELSE {x \in dedup_messages : x[1] # unique_key}
                          \cup {item(unique_key)})

\* the sum of the output_tokens over the items of dedup_messages
RECURSIVE SumOutputTokens(_)
SumOutputTokens(dedup_messages) ==
    IF dedup_messages = {} THEN 0
    ELSE LET x == CHOOSE y \in dedup_messages : TRUE
         IN  x[2] + SumOutputTokens(dedup_messages \ {x})

\* the sum of the input_tokens over the items of dedup_messages
RECURSIVE SumInputTokens(_)
SumInputTokens(dedup_messages) ==
    IF dedup_messages = {} THEN 0
    ELSE LET x == CHOOSE y \in dedup_messages : TRUE
         IN  x[3] + SumInputTokens(dedup_messages \ {x})

\* pricing.get_session_token_usage: input_tokens, output_tokens and
\* message_count
PricingUsage(entries) ==
    LET dedup_messages == DedupMessages(entries, 1, {})
    IN  [fn |-> "pricing",
         input_tokens |-> SumInputTokens(dedup_messages),
         output_tokens |-> SumOutputTokens(dedup_messages),
         message_count |-> Cardinality(dedup_messages)]

\* tailer.get_session_token_usage: every entry with usage is counted
RECURSIVE TailerOutputTokens(_, _)
TailerOutputTokens(entries, i) ==
    IF i > Len(entries) THEN 0
    ELSE entries[i].output_tokens + TailerOutputTokens(entries, i + 1)

RECURSIVE TailerInputTokens(_, _)
TailerInputTokens(entries, i) ==
    IF i > Len(entries) THEN 0
    ELSE entries[i].input_tokens + TailerInputTokens(entries, i + 1)

\* an entry with an empty usage adds nothing (its tokens are 0) and is not
\* counted
TailerUsage(entries) ==
    [fn |-> "tailer",
     input_tokens |-> TailerInputTokens(entries, 1),
     output_tokens |-> TailerOutputTokens(entries, 1),
     message_count |->
         Len(SelectSeq(entries, LAMBDA e : e.usage # "empty"))]

\* the assistant appends an entry to the session file
append_usage(entry) ==
    /\ Len(usage_file) < MaxRecords
    /\ usage_file' = Append(usage_file, entry)
    /\ UNCHANGED <<totals, counted>>
    /\ UNCHANGED outsideUsage

\* get_session_token_usage(session_path) of backends/claude_code/pricing.py
pricing_get_session_token_usage ==
    /\ totals' = PricingUsage(usage_file)
    /\ counted' = Len(usage_file)
    /\ UNCHANGED usage_file
    /\ UNCHANGED outsideUsage

\* get_session_token_usage(session_path) of tailer.py
tailer_get_session_token_usage ==
    /\ totals' = TailerUsage(usage_file)
    /\ counted' = Len(usage_file)
    /\ UNCHANGED usage_file
    /\ UNCHANGED outsideUsage

NextUsage ==
    \/ \E entry \in UsageRecords : append_usage(entry)
    \/ pricing_get_session_token_usage
    \/ tailer_get_session_token_usage

\* an empty session file, no call yet
UsageInit ==
    /\ usage_file = <<>>
    /\ totals = [fn |-> "none", input_tokens |-> 0, output_tokens |-> 0,
                 message_count |-> 0]
    /\ counted = 0

-----------------------------------------------------------------------------
(* Waiting for input (SessionTailer of claude_code_session_explorer/       *)
(* tailer.py; ClaudeCodeTailer._update_waiting_state of                    *)
(* backends/claude_code/tailer.py is the same text)                        *)
(*                                                                         *)
(* The session file is taken line by line here: an entry is a complete,    *)
(* well-formed line, of which the model keeps the "type" member and the    *)
(* shape of message.content: missing, a string, or a list, given by the    *)
(* "type" members of its blocks.                                           *)

\* entries of the session file, at most
MaxHistory == 3

\* a content that is a list of blocks; a content that is a string; no content
ListOf(blocks) == [kind |-> "list", blocks |-> blocks]

StringContent == [kind |-> "string", blocks |-> <<>>]

MissingContent == [kind |-> "missing", blocks |-> <<>>]

\* message.content of a user entry: a string, a list that begins with a
\* tool result, another list, an empty list, or nothing
UserContents ==
    { StringContent, ListOf(<<"tool_result">>), ListOf(<<"text">>),
      ListOf(<<>>), MissingContent }

\* message.content of an assistant entry
AssistantContents ==
    { ListOf(<<"text">>), ListOf(<<"tool_use">>), ListOf(<<"thinking">>),
      ListOf(<<"text", "tool_use">>), ListOf(<<"tool_use", "text">>),
      ListOf(<<>>) }

\* the lines a session file is made of
Entries ==
    [type : {"user"}, content : UserContents]
        \cup [type : {"assistant"}, content : AssistantContents]
        \cup [type : {"system"}, content : {MissingContent}]

\* isinstance(content, list) and content
IsNonEmptyList(content) ==
    content.kind = "list" /\ content.blocks # <<>>

\* message_data.get("content", []): an absent content is the empty list
ContentOf(entry) ==
    IF entry.content.kind = "missing" THEN ListOf(<<>>) ELSE entry.content

\* the waiting state: _waiting_for_input and _last_message_type
Waiting(waiting, last_message_type) ==
    [_waiting_for_input |-> waiting, _last_message_type |-> last_message_type]

\* _update_waiting_state, the branch of a user entry
UpdateOnUser_ListsOnly(w, content) ==
    IF IsNonEmptyList(content)
    THEN Waiting(FALSE, IF content.blocks[1] = "tool_result"
                        THEN "user_tool_result" ELSE "user_input")
    ELSE w

UpdateOnUser(w, content) ==
    IF IsNonEmptyList(content)
    THEN Waiting(FALSE, IF content.blocks[1] = "tool_result"
                        THEN "user_tool_result" ELSE "user_input")
    ELSE IF content.kind = "string" THEN Waiting(FALSE, "user_input")
    ELSE w

\* _update_waiting_state, the branch of an assistant entry
UpdateOnAssistant_FirstBlock(w, content) ==
    IF IsNonEmptyList(content)
    THEN IF content.blocks[1] = "tool_use"
         THEN Waiting(FALSE, "assistant_tool")
         ELSE IF content.blocks[1] = "text"
         THEN Waiting(TRUE, "assistant_text")
         ELSE w
    ELSE Waiting(FALSE, "assistant_other")

\* an update in which a final block that is neither text nor tool_use
\* turns the state over instead of keeping it
UpdateOnAssistant_Flips(w, content) ==
    IF IsNonEmptyList(content)
    THEN IF content.blocks[Len(content.blocks)] = "tool_use"
         THEN Waiting(FALSE, "assistant_tool")
         ELSE IF content.blocks[Len(content.blocks)] = "text"
         THEN Waiting(TRUE, "assistant_text")
         ELSE Waiting(~w._waiting_for_input, w._last_message_type)
    ELSE Waiting(FALSE, "assistant_other")

UpdateOnAssistant(w, content) ==
    IF IsNonEmptyList(content)
    THEN IF content.blocks[Len(content.blocks)] = "tool_use"
         THEN Waiting(FALSE, "assistant_tool")
         ELSE IF content.blocks[Len(content.blocks)] = "text"
         THEN Waiting(TRUE, "assistant_text")
         ELSE w
    ELSE Waiting(FALSE, "assistant_other")

\* SessionTailer._update_waiting_state(entry)
UpdateWaitingState(w, entry) ==
    IF entry.type = "assistant" THEN UpdateOnAssistant(w, ContentOf(entry))
    ELSE IF entry.type = "user" THEN UpdateOnUser(w, ContentOf(entry))
    ELSE w

\* the loop of read_new_lines over the lines from i on: user and assistant
\* entries are taken, the others passed over
RECURSIVE ReadLines(_, _, _)
ReadLines(lines, i, w) ==
    IF i > Len(lines) THEN w
    ELSE ReadLines(lines, i + 1,
             IF lines[i].type \in {"user", "assistant"}
             THEN UpdateWaitingState(w, lines[i])
             ELSE w)

\* the session file gets another line
append_entry(entry) ==
    /\ Len(history) < MaxHistory
    /\ history' = Append(history, entry)
    /\ UNCHANGED <<seen, _waiting_for_input, _last_message_type, called>>
    /\ UNCHANGED outsideWaiting

\* SessionTailer.read_new_lines()
waiting_read_new_lines ==
    LET w == ReadLines(history, seen + 1,
                 Waiting(_waiting_for_input, _last_message_type))
    IN  /\ seen' = Len(history)
        /\ _waiting_for_input' = w._waiting_for_input
        /\ _last_message_type' = w._last_message_type
        /\ called' = "read_new_lines"
        /\ UNCHANGED history
        /\ UNCHANGED outsideWaiting

\* SessionTailer.read_all(): a fresh tailer reads the file from its start,
\* and its waiting state is taken over; the position stays
waiting_read_all ==
    LET w == ReadLines(history, 1, Waiting(FALSE, None))
    IN  /\ _waiting_for_input' = w._waiting_for_input
        /\ _last_message_type' = w._last_message_type
        /\ called' = "read_all"
        /\ UNCHANGED <<history, seen>>
        /\ UNCHANGED outsideWaiting

NextWaiting ==
    \/ \E entry \in Entries : append_entry(entry)
    \/ waiting_read_new_lines
    \/ waiting_read_all

\* SessionTailer.__init__ on an empty session file
WaitingInit ==
    /\ history = <<>>
    /\ seen = 0
    /\ _waiting_for_input = FALSE
    /\ _last_message_type = None
    /\ called = "init"

-----------------------------------------------------------------------------
(* Specifications *)

\* the idle tracker, the token counts and the explorer's tailer at rest
Elsewhere ==
    /\ TrackerInit /\ UsageInit /\ WaitingInit
    /\ listed = NotListed /\ received = NotRecorded

ElsewhereButList ==
    TrackerInit /\ UsageInit /\ WaitingInit /\ received = NotRecorded

\* no session file, no tracked session
RegistryIdle ==
    /\ fsys = [p \in Paths |-> Absent]
    /\ _sessions = <<>>
    /\ _known_session_files = {}
    /\ call = NoCall
    /\ result = NoResult

Init == TailerInit /\ RegistryIdle /\ LiveIdle /\ StreamIdle /\ Elsewhere

\* one tailer and its file
Spec == Init /\ [][Next]_vars

InitRegistry == TailerInit /\ RegistryInit /\ LiveIdle /\ StreamIdle /\ Elsewhere

\* the registry and the session files
SpecRegistry == InitRegistry /\ [][NextRegistry]_vars

InitLive == TailerInit /\ LiveInit /\ LiveStart /\ StreamIdle /\ Elsewhere

\* the watch loop over session files of which one is being written
SpecLive == InitLive /\ [][NextLive]_vars

InitCatchup == TailerInit /\ CatchupInit /\ StreamIdle /\ Elsewhere

\* subscribers and their event generators beside the watch loop
SpecCatchup == InitCatchup /\ [][NextCatchup]_vars

\* the response iterates the generator for as long as it runs: a generator
\* suspended at the yield of reinitialize is resumed (or torn down)
SpecCatchupFair ==
    SpecCatchup /\ \A c \in Clients : WF_vars(finish(c) \/ cancel(c))

\* the subscriber that goes on consuming what its generator yields
Consumer == "c2"

InitDeliver ==
    /\ TailerInit /\ LiveInit /\ LiveIdle /\ StreamIdle
    /\ TrackerInit /\ UsageInit /\ WaitingInit
    /\ listed = NotListed /\ received = NothingYielded

\* the session file that is being written is the one the watch loop hears
\* of, and one subscriber connects (and may connect again)
NextDeliver ==
    \/ \E c \in {"U", "A", "}", NL}, t \in Mtimes : AppendLive(c, t)
    \/ \E change_type \in {"added", "modified"} :
           watch_loop(change_type, Growing)
    \/ connect(Consumer)
    \/ \E budget \in Budgets :
           \E visible \in {{"user", "assistant"}, {"assistant"}} :
               catchup(Consumer, budget, visible)
    \/ \E disconnected \in BOOLEAN : live(Consumer, disconnected)
    \/ finish(Consumer)
    \/ cancel(Consumer)

\* subscribers beside the watch loop while a session file is being written,
\* with the record of what each subscriber was sent
SpecDeliver == InitDeliver /\ [][NextDeliver]_vars

\* the generator of a subscriber that consumes is resumed whenever it can go
\* on: into and through the catch-up, and out of it after reinitialize;
\* nothing makes another subscriber consume or disconnect
SpecStallFair ==
    /\ SpecCatchup
    /\ WF_vars(\E budget \in Budgets :
                   \E visible \in {{"user", "assistant"}, {"assistant"}} :
                       catchup(Consumer, budget, visible))
    /\ WF_vars(finish(Consumer))

InitTracker ==
    TailerInit /\ RegistryIdle /\ LiveIdle /\ StreamIdle /\ Elsewhere

\* the idle tracker with its timers, callbacks, stuck check and shutdown
SpecIdle == InitTracker /\ [][NextIdle]_vars

\* the idle tracker, with mark_session_summarized called at any point
SpecTracker == InitTracker /\ [][NextTracker]_vars

\* the task of _stuck_check_loop sleeps STUCK_CHECK_INTERVAL seconds and
\* sweeps, again and again, for as long as it runs
SpecSweepFair == SpecTracker /\ WF_vars(_check_stuck_summarizations)

\* beside that, every awaited callback returns or raises in the end, every
\* sleeping timer wakes up, and time goes by
SpecTrackerFair ==
    /\ SpecSweepFair
    /\ \A s \in SessionIds :
           /\ WF_vars(\E outcome \in Outcomes : callback_ends(s, outcome))
           /\ WF_vars(\E found \in BOOLEAN : idle_timer(s, found))
           /\ WF_vars(time_passes(s))

\* the two functions that total the token usage of a session file
SpecUsage == Init /\ [][NextUsage]_vars

NextDedup ==
    \/ \E entry \in DedupRecords : append_usage(entry)
    \/ pricing_get_session_token_usage

\* pricing.get_session_token_usage over entries that may lack their ids or
\* their usage
SpecDedup == Init /\ [][NextDedup]_vars

InitList ==
    TailerInit /\ ListInit /\ LiveIdle /\ StreamIdle /\ ElsewhereButList

\* get_sessions_list over the registries and the files there can be
SpecList == InitList /\ [][get_sessions_list]_vars

\* the explorer's tailer and the session file it reads
SpecWaiting == Init /\ [][NextWaiting]_vars

-----------------------------------------------------------------------------
(* What the file says, read off its characters (used to state the claims)  *)

\* the text of the line of f whose terminator is at index i
LineEndingAt(f, i) ==
    SubSeq(f, Max({j \in Terminators(f) : j < i} \cup {0}) + 1, i - 1)

\* the lines of f whose terminator lies in lo+1 .. hi, in file order
RECURSIVE LinesIn(_, _, _)
LinesIn(f, lo, hi) ==
    LET T == {i \in Terminators(f) : lo < i /\ i <= hi}
    IN  IF T = {} THEN <<>>
        ELSE <<LineEndingAt(f, Min(T))>> \o LinesIn(f, Min(T), hi)

\* a line text without its blanks
Squeeze(l) == SelectSeq(l, LAMBDA c : c # " ")

\* "user", "assistant", "system", "none" (an object without type),
\* "blank", or "malformed" (not valid JSON)
KindOfLine(l) ==
    CASE Squeeze(l) = <<>>          -> "blank"
      [] Squeeze(l) = <<"U", "}">>  -> "user"
      [] Squeeze(l) = <<"A", "}">>  -> "assistant"
      [] Squeeze(l) = <<"S", "}">>  -> "system"
      [] Squeeze(l) = <<"O", "}">>  -> "none"
      [] OTHER                      -> "malformed"

IsMessageLine(l) == KindOfLine(l) \in {"user", "assistant"}

\* one entry per user or assistant line, in the order of the lines
MessagesOf(ls) ==
    LET m == SelectSeq(ls, IsMessageLine)
    IN  [i \in 1..Len(m) |-> [type |-> KindOfLine(m[i])]]

\* the last call was a read_new_lines() that could open the file
LastReadOK == op = "read_new_lines" /\ opened = "present"

\* the file as the last successful read_new_lines() saw it
Seen == SubSeq(file, 1, position)

User == [type |-> "user"]

Assistant == [type |-> "assistant"]

-----------------------------------------------------------------------------
(* Claims about the tailer, checked under Spec *)

\* C1: whatever the appends (each may end in the middle of a line) and
\* however read_new_lines() calls are interleaved with them, once a
\* read_new_lines() has read up to the end of the file the concatenation of
\* all the lists returned equals what read_all() returns on that file.
C1_IncrementalEqualsReadAll ==
    position = Len(file) => returned = ReadAll(Self, "present", file).results

\* the tailer has caught up over several calls, the last of which completed a
\* line whose beginning an earlier call had buffered
C1_Witness ==
    /\ LastReadOK
    /\ position = Len(file)
    /\ prev.buffer # <<>>
    /\ returned = <<User, Assistant>>

\* C2: a read_new_lines() returns nothing for text whose line terminator is
\* not in the file yet and keeps that text in the buffer; the call that reads
\* the terminator returns exactly one entry for the line, parsed from the
\* whole text of the line in the file, in however many appends and reads the
\* text arrived.
C2_PartialLineBuffered ==
    LastReadOK =>
        LET done == LinesIn(Seen, prev.position, position)
        IN  /\ buffer = OpenLine(Seen)
            /\ done = <<>> => ret = <<>>
            /\ Len(ret) = Len(SelectSeq(done, IsMessageLine))
            /\ (prev.buffer # <<>> /\ done # <<>> /\ IsMessageLine(done[1]))
                   => ret[1] = [type |-> KindOfLine(done[1])]

\* "U", then "}", then the terminator arrived in separate appends with reads
\* in between; the read of the terminator returns the one entry
C2_Witness ==
    /\ LastReadOK
    /\ prev.buffer = <<"U", "}">>
    /\ position = prev.position + 1
    /\ buffer = <<>>
    /\ ret = <<User>>

\* C3: a complete line that is not valid JSON adds nothing to the result, is
\* not kept for a later call, and does not stop the read: the user and
\* assistant lines before and after it in the same read are all returned.
C3_MalformedLineSkipped ==
    LastReadOK =>
        LET done == LinesIn(Seen, prev.position, position)
            good == SelectSeq(done, LAMBDA l : KindOfLine(l) # "malformed")
        IN  /\ ret = MessagesOf(good)
            /\ message_index = prev.message_index + Len(ret)
            /\ Len(buffer) <= position - Max(Terminators(Seen) \cup {0})

\* one read of a user line, a malformed line and an assistant line
C3_Witness ==
    /\ LastReadOK
    /\ prev.position = 0
    /\ Seen = <<"U", "}", NL, "U", NL, "A", "}", NL>>
    /\ ret = <<User, Assistant>>

\* C4: read_all() leaves position, buffer and message_index as they were, so
\* the next read_new_lines() returns what it would have returned without it.
C4_ReadAllLeavesTailer ==
    op = "read_all" =>
        /\ Self = prev
        /\ \A st \in OpenOutcomes :
               ReadNewLines(Self, st, file).results
                   = ReadNewLines(prev, st, file).results

\* read_all() returned the history while the tailer itself was part way
\* through the file with a buffered partial line
C4_Witness ==
    /\ op = "read_all"
    /\ ret = <<User, Assistant>>
    /\ 0 < position /\ position < Len(file)
    /\ buffer # <<>>

\* the step is a read_new_lines() call that opens the file, made right after
\* a read_new_lines() call that could not (appends may lie in between)
ResumedRead ==
    /\ op = "read_new_lines" /\ opened # "present"
    /\ op' = "read_new_lines" /\ opened' = "present" /\ file' = file

\* C5: a read_new_lines() that cannot open the file returns an empty list
\* and leaves position and buffer unchanged; when the file is back with the
\* same contents the next read_new_lines() resumes from that position and
\* returns the lines completed after it, and only those.
C5_MissingFileResumes ==
    /\ [](op = "read_new_lines" /\ opened # "present"
              => ret = <<>> /\ Self = prev)
    /\ [][ResumedRead =>
              /\ prev' = prev
              /\ position' = Len(file)
              /\ ret' = MessagesOf(LinesIn(file, position, Len(file)))]_vars

\* a call met no file while the tailer was part way through the file with a
\* buffered partial line and more text to read
C5_Witness ==
    /\ op = "read_new_lines"
    /\ opened = "missing"
    /\ 0 < position /\ position < Len(file)
    /\ buffer # <<>>
    /\ returned # <<>>

\* the step is a call of read_new_lines() or of read_all() that opens the file
ReadStep == op' \in {"read_new_lines", "read_all"} /\ opened' = "present" /\ file' = file

\* C6: read_new_lines() and read_all() return entries of type user or
\* assistant only, one per user or assistant line read, in the order of the
\* lines in the file; entries of any other type (system, no type) are
\* dropped.
C6_OnlyUserAndAssistant ==
    [][ReadStep =>
          LET lo    == IF op' = "read_all" THEN 0 ELSE position
              kinds == [i \in 1..Len(LinesIn(file, lo, Len(file)))
                            |-> KindOfLine(LinesIn(file, lo, Len(file))[i])]
          IN  /\ \A i \in 1..Len(ret') : ret'[i].type \in {"user", "assistant"}
              /\ [i \in 1..Len(ret') |-> ret'[i].type]
                     = SelectSeq(kinds, LAMBDA k : k \in {"user", "assistant"})]_vars

\* read_all() of a file with an entry without type between a user and an
\* assistant entry
C6_Witness ==
    /\ op = "read_all"
    /\ opened = "present"
    /\ file = <<"U", "}", NL, "O", "}", NL, "A", "}", NL>>
    /\ ret = <<User, Assistant>>

-----------------------------------------------------------------------------
(* Claims about the registry, checked under SpecRegistry *)

\* the step is the call add_session(path, evict_oldest)
AddCall(path, evict_oldest) ==
    /\ fsys' = fsys
    /\ call' = [fn |-> "add_session", path |-> path,
                evict_oldest |-> evict_oldest, session_id |-> get_session_id(path)]

\* the file of the tracked session with this id
FileOf(session_id) == fsys[InfoOf(session_id).path]

AllTrackedFilesExist == \A i \in DOMAIN _sessions : fsys[_sessions[i].path].exists

\* C7: whatever add_session calls (evicting or not) and remove_session calls
\* are made, the registry never tracks more than MAX_SESSIONS sessions.
C7_NeverOverLimit == Len(_sessions) <= MAX_SESSIONS

\* an evicting add_session on a full registry, one of whose files is gone
C7_Witness ==
    /\ Len(_sessions) = MAX_SESSIONS
    /\ call.fn = "add_session"
    /\ result.info # None
    /\ result.evicted_id # None
    /\ ~AllTrackedFilesExist

\* C8: add_session with eviction enabled, for an untracked session, on a
\* registry that holds MAX_SESSIONS sessions whose files all exist: exactly
\* one session is removed, no tracked file is older than that of the removed
\* session, its id is returned as evicted_id, the new session is tracked and
\* the registry still holds MAX_SESSIONS sessions.
C8_EvictsOldest ==
    [][\A path \in Paths :
          ( /\ AddCall(path, TRUE)
            /\ Len(_sessions) = MAX_SESSIONS
            /\ get_session_id(path) \notin TrackedIds
            /\ AllTrackedFilesExist )
          => LET gone == {_sessions[i].session_id : i \in DOMAIN _sessions}
                           \ {_sessions'[i].session_id : i \in DOMAIN _sessions'}
             IN  /\ Cardinality(gone) = 1
                 /\ \A g \in gone :
                        /\ \A i \in DOMAIN _sessions :
                               FileOf(g).mtime <= fsys[_sessions[i].path].mtime
                        /\ result'.evicted_id = g
                 /\ result'.info = get_session_id(path)
                 /\ \E i \in DOMAIN _sessions' :
                        /\ _sessions'[i].session_id = get_session_id(path)
                        /\ _sessions'[i].path = path
                 /\ Len(_sessions') = MAX_SESSIONS]_vars

\* an eviction among existing files: the evicted file is strictly older than
\* the file of every session tracked afterwards
C8_Witness ==
    /\ call.fn = "add_session"
    /\ call.evict_oldest
    /\ result.info = call.session_id
    /\ result.evicted_id \in Stems
    /\ Len(_sessions) = MAX_SESSIONS
    /\ \A p \in Paths : fsys[p].exists
    /\ \A i \in DOMAIN _sessions :
           fsys[[dir |-> "project", stem |-> result.evicted_id]].mtime
               < fsys[_sessions[i].path].mtime

\* C9: add_session with eviction disabled on a registry that holds
\* MAX_SESSIONS sessions returns (None, None), evicts nothing and leaves the
\* tracked sessions and the known session files as they were.
C9_RejectsWhenFull ==
    [][\A path \in Paths :
          (AddCall(path, FALSE) /\ Len(_sessions) = MAX_SESSIONS)
          => /\ result'.info = None
             /\ result'.evicted_id = None
             /\ _sessions' = _sessions
             /\ _known_session_files' = _known_session_files]_vars

\* an add of an untracked session was rejected by the full registry
C9_Witness ==
    /\ call.fn = "add_session"
    /\ ~call.evict_oldest
    /\ call.session_id \notin TrackedIds
    /\ call.path \notin _known_session_files
    /\ result = NoResult
    /\ Len(_sessions) = MAX_SESSIONS

\* C10: when add_session evicts and some tracked session's file no longer
\* exists, the session evicted is one whose file no longer exists.
C10_MissingFileEvictedFirst ==
    [][\A path \in Paths :
          ( /\ AddCall(path, TRUE)
            /\ result'.evicted_id # None
            /\ ~AllTrackedFilesExist )
          => ~FileOf(result'.evicted_id).exists]_vars

\* C11: add_session for a path whose session id is already tracked returns
\* (None, None) and changes nothing: no session is evicted, even from a full
\* registry and with eviction enabled, the known session files stay as they
\* were, and the tracked session keeps its tailer (position, buffer, index).
C11_DuplicateAddChangesNothing ==
    [][\A path \in Paths, evict_oldest \in BOOLEAN :
          ( /\ AddCall(path, evict_oldest)
            /\ \E i \in DOMAIN _sessions :
                   _sessions[i].session_id = get_session_id(path) )
          => /\ result'.info = None
             /\ result'.evicted_id = None
             /\ _sessions' = _sessions
             /\ _known_session_files' = _known_session_files]_vars

\* an evicting add_session for a tracked session on a full registry; the
\* session was added before its file existed, so its tailer stands at 0 where
\* a new tailer would have read to the end of the file
C11_Witness ==
    /\ call.fn = "add_session"
    /\ call.evict_oldest
    /\ result = NoResult
    /\ Len(_sessions) = MAX_SESSIONS
    /\ \E i \in DOMAIN _sessions :
           /\ _sessions[i].session_id = call.session_id
           /\ fsys[call.path].exists
           /\ _sessions[i].tailer.position = 0
           /\ _sessions[i].tailer.position # Len(fsys[call.path].content)

-----------------------------------------------------------------------------
(* Claims about the live path, checked under SpecLive *)

\* a is b with some of its elements left out
RECURSIVE IsSubSeq(_, _)
IsSubSeq(a, b) ==
    IF a = <<>> THEN TRUE
    ELSE IF b = <<>> THEN FALSE
    ELSE IF Head(a) = Head(b) THEN IsSubSeq(Tail(a), Tail(b))
    ELSE IsSubSeq(a, Tail(b))

\* the user and assistant lines of the file of a tracked session that were
\* completed after the session was created
CompletedSinceAdd(info) ==
    LET f == fsys[info.path].content
    IN  MessagesOf(LinesIn(f, added_at[info.session_id], Len(f)))

\* C12: after add_session has created a session, the entries that
\* process_session_messages broadcasts for it are entries of lines completed
\* in the file after the add, in file order and each at most once: no entry
\* whose complete line was in the file when add_session ran is broadcast.
C12_LivePathSkipsHistory ==
    \A i \in DOMAIN _sessions :
        IsSubSeq(emitted[_sessions[i].session_id], CompletedSinceAdd(_sessions[i]))

-----------------------------------------------------------------------------
(* Claims about subscribers, checked under SpecCatchup / SpecCatchupFair *)

\* C13: while an event_generator is inside async with (from taking the
\* sessions lock to giving it back, suspended at a yield in between), no
\* step changes the registry: no session appears in, disappears from or moves
\* within _sessions, and the known session files stay as they are.
C13_RegistryStableDuringCatchup ==
    [][(lock \in Clients) =>
          /\ _sessions' = _sessions
          /\ _known_session_files' = _known_session_files]_vars

\* a generator is suspended at the yield of a message of the first session
\* of a full registry, with the lock, and has a session left to enumerate
C13_Witness ==
    /\ lock \in Clients
    /\ gen[lock].pc = "catchup"
    /\ gen[lock].out.event = "message"
    /\ gen[lock].idx = 1
    /\ Len(_sessions) = MAX_SESSIONS

\* C14: when the catch-up timeout has been detected, the generator has left
\* async with (it does not hold the lock) and is suspended at the yield of
\* the reinitialize event, the one event yielded since the detection, or has
\* ended with its queue out of the client set; its next step ends it, so it
\* yields no further message, no catchup_complete and no live event; and it
\* does end.
C14_TimeoutEndsCatchup ==
    /\ [](\A c \in Clients :
             gen[c].catchup_timed_out =>
                 /\ lock # c
                 /\ gen[c].pc \in {"reinit", "done"}
                 /\ gen[c].pc = "reinit"
                        => gen[c].out = Event("reinitialize", None, "none")
                 /\ gen[c].pc = "done" => gen[c].out = NoEvent /\ c \notin _clients)
    /\ [][\A c \in Clients :
              (gen[c].pc = "reinit" /\ gen'[c] # gen[c])
                  => gen'[c].pc = "done" /\ gen'[c].catchup_timed_out]_vars
    /\ \A c \in Clients : (gen[c].pc = "reinit") ~> (gen[c].pc = "done")

\* the timeout was detected at an entry of the second session, after the
\* first session had been streamed: the generator is at the yield of
\* reinitialize, without the lock, its queue still in the client set
C14_Witness ==
    \E c \in Clients :
        /\ gen[c].pc = "reinit"
        /\ gen[c].catchup_timed_out
        /\ gen[c].idx = 2
        /\ lock = None
        /\ c \in _clients

\* the events a step of the watch loop broadcasts, read off the registry and
\* the record of the messages: session_removed when a session is gone,
\* session_added when one is new, a message for each entry recorded
Broadcasts ==
    LET ids(ss) == {ss[i].session_id : i \in DOMAIN ss}
        gone    == ids(_sessions) \ ids(_sessions')
        new     == ids(_sessions') \ ids(_sessions)
        told    == {x \in Stems : x \notin new /\ Len(emitted'[x]) > Len(emitted[x])}
    IN  (IF gone # {} THEN <<Event("session_removed", None, "none")>> ELSE <<>>)
        \o (IF new # {} THEN <<Event("session_added", None, "none")>> ELSE <<>>)
        \o (IF told = {} THEN <<>>
            ELSE LET x == CHOOSE y \in told : TRUE
                 IN  [i \in 1..(Len(emitted'[x]) - Len(emitted[x])) |->
                         Event("message", x, emitted'[x][Len(emitted[x]) + i].type)])

\* what the claim says one broadcast_event(ev) does to a subscriber c whose
\* queue holds q: in is whether its queue is in the client set
Delivered(in, q, ev) ==
    IF ~in THEN [in |-> FALSE, q |-> q]
    ELSE IF Len(q) < QueueMaxsize THEN [in |-> TRUE, q |-> Append(q, ev)]
    ELSE [in |-> FALSE, q |-> q]

RECURSIVE DeliveredAll(_, _, _)
DeliveredAll(in, q, evs) ==
    IF evs = <<>> THEN [in |-> in, q |-> q]
    ELSE LET d == Delivered(in, q, Head(evs))
         IN  DeliveredAll(d.in, d.q, Tail(evs))

\* the step is one of the watch loop, or changes nothing the claim is about:
\* no generator moves and no queue loses an event
WatchStep ==
    /\ gen' = gen
    /\ lock' = lock
    /\ \A c \in Clients : Len(queues'[c]) >= Len(queues[c])

\* C15: broadcast_event runs to its end without waiting; after each call,
\* a subscriber queue that was in the client set and not full has the event
\* as its last element and is still in the set, a queue that was full is out
\* of the set with its contents unchanged, and a queue that is out of the
\* set gets no event and is not put back.
C15_BroadcastNeverBlocks ==
    [][WatchStep =>
          \A c \in Clients :
              LET d == DeliveredAll(c \in _clients, queues[c], Broadcasts)
              IN  /\ queues'[c] = d.q
                  /\ (c \in _clients') = d.in]_vars

\* a broadcast has put an event on the queue of one subscriber and has taken
\* the full queue of another, whose generator is still running, out of the
\* client set
C15_Witness ==
    \E c, d \in Clients :
        /\ c \notin _clients
        /\ gen[c].pc \notin {"start", "done"}
        /\ Len(queues[c]) = QueueMaxsize
        /\ d \in _clients
        /\ queues[d] # <<>>
        /\ Len(queues[d]) < QueueMaxsize

-----------------------------------------------------------------------------
(* The idle tracker: the claims                                            *)

\* the state of SummaryState a session is in; a session the tracker has not
\* heard of is in NONE
StateOf(tracked) ==
    IF tracked.state = "untracked" THEN "none" ELSE tracked.state

\* the edges of the summary state machine
Edges ==
    { <<"none", "pending">>, <<"pending", "summarizing">>,
      <<"summarizing", "done">>, <<"summarizing", "failed">>,
      <<"done", "pending">>, <<"failed", "pending">> }

\* C16: under any interleaving of on_session_activity, idle timers, callback
\* completions, the stuck check and shutdown, every change of a session's
\* state follows one of the edges NONE to PENDING, PENDING to SUMMARIZING,
\* SUMMARIZING to DONE, SUMMARIZING to FAILED, DONE to PENDING, FAILED to
\* PENDING.  (Violated: a callback that ends after the stuck check has
\* failed its session takes the session from FAILED to DONE.)
C16_ChangesFollowEdges ==
    [][\A s \in SessionIds :
          StateOf(sessions'[s]) # StateOf(sessions[s])
              => <<StateOf(sessions[s]), StateOf(sessions'[s])>> \in Edges]_vars

\* C17: at any time at most one summarize callback invocation is in flight
\* for a given session, whatever the interleaving of on_session_activity,
\* idle timers, the stuck check and mark_session_summarized.  (Violated: the
\* stuck check and mark_session_summarized move a session out of SUMMARIZING
\* while its callback is still awaited, and the next idle timer invokes the
\* callback again.)
C17_OneCallbackInFlight ==
    \A s \in SessionIds : inflight[s] <= 1

\* the step in which the idle timer of s fires with its session found, the
\* tracker running: the idle period after a burst of activity has passed
TimerFires(s) ==
    /\ last'.op = "idle_timer" /\ last'.session_id = s /\ last'.arg = "found"
    /\ ~_shutdown

\* C18: a burst of on_session_activity(s) calls, each made before the idle
\* timer scheduled by the one before has fired, and then an idle period: no
\* timer but the last fires (at most one timer of s sleeps at any time, and
\* a call replaces it) and the summarize callback is invoked exactly once,
\* when that timer fires.  (Violated: after a burst that came while s was
\* being summarized the timer fires and invokes nothing.)
C18_BurstSummarizedOnce ==
    [][\A s \in SessionIds :
          TimerFires(s) => /\ _timers[s] /\ ~_timers'[s]
                           /\ inflight'[s] = inflight[s] + 1]_vars

\* the step in which the idle timer of s fires for a pending session that
\* the lookup finds, the tracker running
FiresPending(s) ==
    /\ TimerFires(s)
    /\ sessions[s].state = "pending"

\* the step in which an awaited callback of s ends
CallbackEnds(s) ==
    last'.op = "callback_ends" /\ last'.session_id = s

\* the callback is invoked in PENDING and SUMMARIZING begins; the state the
\* end of a callback leaves is DONE for True, FAILED for False or an exception
InvokedAndMarked ==
    \A s \in SessionIds :
        /\ FiresPending(s) => /\ sessions'[s].state = "summarizing"
                              /\ inflight'[s] = inflight[s] + 1
        /\ CallbackEnds(s) =>
               sessions'[s].state =
                   IF last'.arg = "true" THEN "done" ELSE "failed"

\* C19 as stated: when the idle timer fires for a session in PENDING the
\* session is SUMMARIZING while the callback runs, and when the callback
\* finishes the state is DONE if it returned true and FAILED if it returned
\* false or raised an exception.
C19_SummarizingWhileCallbackRuns ==
    /\ [](\A s \in SessionIds :
              inflight[s] > 0 => sessions[s].state = "summarizing")
    /\ [][InvokedAndMarked]_vars

\* C19, amended: when the idle timer fires for a session in PENDING and the
\* lookup finds the session, the session is SUMMARIZING and the callback is
\* invoked; while the callback runs the session stays SUMMARIZING unless the
\* stuck check marks it FAILED, mark_session_summarized marks it DONE or
\* another callback of the same session ends; when the callback finishes
\* the state is DONE if it returned true and FAILED if it returned false or
\* raised an exception.
C19_SummarizingUntilOverridden ==
    /\ [][InvokedAndMarked]_vars
    /\ [][\A s \in SessionIds :
              ( /\ inflight[s] > 0
                /\ sessions[s].state = "summarizing"
                /\ sessions'[s].state # "summarizing" )
                  => \/ last'.op = "_check_stuck_summarizations"
                        /\ sessions'[s].state = "failed"
                     \/ last'.op = "mark_session_summarized"
                        /\ last'.session_id = s
                        /\ sessions'[s].state = "done"
                     \/ CallbackEnds(s)]_vars

\* a callback invoked by the idle timer of s1 has raised an exception while
\* s1 was SUMMARIZING, and s1 is FAILED
C19_Witness ==
    /\ last = Step("callback_ends", "s1", "raise")
    /\ sessions["s1"].state = "failed"
    /\ inflight["s1"] = 0

\* the step that is a call on_session_activity(s)
Activity(s) ==
    last'.op = "on_session_activity" /\ last'.session_id = s

\* on_session_activity(s) on a running tracker: SUMMARIZING is left alone,
\* its start time and the awaited callbacks with it, and every other state
\* ends in PENDING
ActivityOnRunning(s) ==
    IF sessions[s].state = "summarizing"
    THEN /\ sessions'[s] = sessions[s]
         /\ inflight'[s] = inflight[s]
    ELSE sessions'[s].state = "pending"

\* C20 as stated: on_session_activity(s) called while s is SUMMARIZING
\* leaves the state SUMMARIZING and summary_started_at unchanged and does
\* not interrupt the running callback; in every other state it leaves s in
\* PENDING (creating s in PENDING if it was not tracked).
C20_ActivityKeepsSummarizing ==
    [][\A s \in SessionIds : Activity(s) => ActivityOnRunning(s)]_vars

\* C20, amended: the same unless the tracker has been shut down; after
\* shutdown() the call changes nothing: no state, no tracked session, no
\* timer.
C20_ActivityUnlessShutDown ==
    [][\A s \in SessionIds :
          Activity(s) =>
              IF _shutdown
              THEN sessions' = sessions /\ _timers' = _timers
                                        /\ inflight' = inflight
              ELSE ActivityOnRunning(s) /\ _timers'[s]]_vars

\* on_session_activity("s1") has just been called while s1 was being
\* summarized: s1 is SUMMARIZING, its callback awaited, a new timer sleeps
C20_Witness ==
    /\ last = Step("on_session_activity", "s1", None)
    /\ ~_shutdown
    /\ sessions["s1"].state = "summarizing"
    /\ inflight["s1"] = 1
    /\ _timers["s1"]

\* s is being summarized and on_session_activity(s) has been called since:
\* the timer the call scheduled still sleeps
ActiveWhileSummarizing(s) ==
    /\ sessions[s].state = "summarizing"
    /\ inflight[s] > 0
    /\ _timers[s]

\* C21: if on_session_activity(s) is called while s is SUMMARIZING, then
\* when that summarization finishes s enters PENDING again (and a further
\* summarization of s follows without more activity: it can only start from
\* PENDING).  (Violated: the end of the callback leaves s DONE or FAILED,
\* and the timer of the call finds no PENDING session to summarize.)
C21_ActivityForcesNewCycle ==
    [][\A s \in SessionIds :
          (ActiveWhileSummarizing(s) /\ CallbackEnds(s))
              => sessions'[s].state = "pending"]_vars

\* the step that is a call mark_session_summarized(s)
MarkedSummarized(s) ==
    last'.op = "mark_session_summarized" /\ last'.session_id = s

\* C22: after mark_session_summarized(s), s is in DONE and has no
\* outstanding idle timer (a session not yet tracked is created in DONE);
\* unless on_session_activity(s) is called afterwards no idle timer starts a
\* summarize callback for s: an idle timer of s comes to be only in a call
\* on_session_activity(s), and a callback of s starts only when an
\* outstanding idle timer of s fires.
C22_MarkedSummarizedStaysQuiet ==
    [][\A s \in SessionIds :
          /\ MarkedSummarized(s) =>
                 sessions'[s] = Tracked("done", None) /\ ~_timers'[s]
          /\ (~_timers[s] /\ _timers'[s]) => Activity(s)
          /\ inflight'[s] > inflight[s] =>
                 /\ _timers[s]
                 /\ last'.op = "idle_timer" /\ last'.session_id = s]_vars

\* mark_session_summarized("s1") has just been called on a session that
\* was being summarized: s1 is DONE with no timer, its callback still awaited
C22_Witness ==
    /\ last = Step("mark_session_summarized", "s1", None)
    /\ sessions["s1"].state = "done"
    /\ ~_timers["s1"]
    /\ inflight["s1"] = 1

\* s has been SUMMARIZING for more than SUMMARY_TIMEOUT seconds
Stuck(s) ==
    /\ sessions[s].state = "summarizing"
    /\ sessions[s].summary_started_at = "overdue"

\* C23: once start() has been called and shutdown() has not, a session that
\* stays in SUMMARIZING longer than SUMMARY_TIMEOUT is eventually set to
\* FAILED by the stuck-check sweep, with no external call and even if its
\* summarize callback never returns: every sweep fails the sessions that
\* are stuck, and a stuck session does not stay so while the stuck check
\* runs.
C23_StuckSessionsFail ==
    /\ [][\A s \in SessionIds :
              (Stuck(s) /\ last'.op = "_check_stuck_summarizations")
                  => sessions'[s] = Tracked("failed", None)]_vars
    /\ \A s \in SessionIds :
           (Stuck(s) /\ _stuck_check_task = "running")
               ~> (~Stuck(s) \/ _stuck_check_task # "running")

\* the sweep has just failed s1, whose callback has not returned
C23_Witness ==
    /\ last = Step("_check_stuck_summarizations", None, None)
    /\ sessions["s1"].state = "failed"
    /\ inflight["s1"] = 1
    /\ _stuck_check_task = "running"

\* what the tracker holds, the record of the last step apart
TrackerState == <<sessions, _timers, inflight, _shutdown, _stuck_check_task>>

\* C24: after shutdown() no idle timer remains outstanding and no new
\* summarize callback invocation ever starts, whatever operations follow:
\* on_session_activity changes no state and schedules no timer, and a second
\* shutdown() changes nothing.
C24_NothingStartsAfterShutdown ==
    /\ [](_shutdown => \A s \in SessionIds : ~_timers[s])
    /\ [][_shutdown =>
              /\ _shutdown'
              /\ \A s \in SessionIds : inflight'[s] <= inflight[s]
              /\ last'.op \in {"on_session_activity", "shutdown"}
                     => TrackerState' = TrackerState]_vars

\* on_session_activity("s1") has just been called on a tracker that was
\* shut down while s1 was DONE
C24_Witness ==
    /\ _shutdown
    /\ last = Step("on_session_activity", "s1", None)
    /\ sessions["s1"].state = "done"
    /\ _stuck_check_task = "done"

\* C25: if the task awaiting the summarize callback of s is cancelled, or
\* shutdown() is called while a summarization of s is in flight, s does not
\* remain in SUMMARIZING forever: it eventually reaches DONE or FAILED.
\* (Violated: the cancelled task leaves s SUMMARIZING, and with the stuck
\* check not running nothing is left that would change that.)
C25_CancelledLeavesSummarizing ==
    \A s \in SessionIds :
        ( /\ sessions[s].state = "summarizing"
          /\ \/ last = Step("task_cancelled", s, None)
             \/ _shutdown )
            ~> (sessions[s].state \in {"done", "failed"})

-----------------------------------------------------------------------------
(* Token usage: the claims                                                 *)

\* the keys (message id, request id) of the entries
KeysOf(entries) ==
    {<<entries[i].id, entries[i].requestId>> : i \in DOMAIN entries}

\* the largest output_tokens among the entries of one key
MaxOfKey(entries, key) ==
    Max({entries[i].output_tokens :
            i \in {j \in DOMAIN entries :
                      <<entries[j].id, entries[j].requestId>> = key}})

\* the sum over the keys of the largest output_tokens of each
RECURSIVE SumOfMaxima(_, _)
SumOfMaxima(entries, keys) ==
    IF keys = {} THEN 0
    ELSE LET key == CHOOSE k \in keys : TRUE
         IN  MaxOfKey(entries, key) + SumOfMaxima(entries, keys \ {key})

\* the entries with those at i and j exchanged
Exchanged(entries, i, j) ==
    [k \in DOMAIN entries |->
        IF k = i THEN entries[j] ELSE IF k = j THEN entries[i] ELSE entries[k]]

\* the function that returned usage, applied to entries
SameCall(usage, entries) ==
    IF usage.fn = "pricing" THEN PricingUsage(entries) ELSE TailerUsage(entries)

\* the entries the session file had at the last call
Counted == SubSeq(usage_file, 1, counted)

\* C26: for any sequence of assistant usage records that carry a message id
\* and a request id, the total output_tokens computed by
\* get_session_token_usage is the sum over the distinct keys (message_id,
\* request_id) of the largest output_tokens seen for the key, and it is the
\* same in whatever order the records arrive.  (Violated by
\* get_session_token_usage of tailer.py, which adds up every record.)
C26_TotalIsSumOfMaxima ==
    totals.fn # "none" =>
        /\ totals.output_tokens = SumOfMaxima(Counted, KeysOf(Counted))
        /\ \A i, j \in DOMAIN Counted :
               SameCall(totals, Exchanged(Counted, i, j)).output_tokens
                   = totals.output_tokens

\* the same of pricing.get_session_token_usage alone
PricingTotalIsSumOfMaxima ==
    totals.fn = "pricing" => C26_TotalIsSumOfMaxima

-----------------------------------------------------------------------------
(* Waiting for input: the claims                                           *)

\* the user and assistant entries among the lines
Messages(lines) ==
    SelectSeq(lines, LAMBDA e : e.type \in {"user", "assistant"})

\* the step is a call of read_new_lines that processes entries, the last of
\* them of type user
ReadsUserLast ==
    /\ called' = "read_new_lines" /\ history' = history
    /\ LET new == Messages(SubSeq(history, seen + 1, Len(history)))
       IN  new # <<>> /\ new[Len(new)].type = "user"

\* C27: after read_new_lines() has processed an entry of type user,
\* waiting_for_input is false, whatever the shape of the entry's content
\* (string, tool_result list, other list, empty list, or missing) and
\* whatever the state was before.  (Violated: a user entry whose content is
\* an empty list or missing leaves the state as it was.)
C27_UserEntryEndsWaiting ==
    [][ReadsUserLast => ~_waiting_for_input']_vars

\* the final content block of an assistant entry, "" if it has none
FinalBlock(entry) ==
    IF entry.content.kind = "list" /\ entry.content.blocks # <<>>
    THEN entry.content.blocks[Len(entry.content.blocks)]
    ELSE ""

\* an assistant entry whose final block is neither text nor tool_use leaves
\* the state as it was; every other user or assistant entry determines it
Determines(entry) ==
    ~(entry.type = "assistant" /\ FinalBlock(entry) \notin {"text", "tool_use", ""})

\* the last entry that determines the state is an assistant entry whose
\* final content block is text
EndsInAssistantText(lines) ==
    LET determining == SelectSeq(Messages(lines), Determines)
    IN  /\ determining # <<>>
        /\ determining[Len(determining)].type = "assistant"
        /\ FinalBlock(determining[Len(determining)]) = "text"

\* C28: for any file history, after a full catch-up read waiting_for_input
\* is true exactly when the last entry that determines the state is an
\* assistant entry whose final content block is text; an assistant entry
\* whose final block is neither text nor tool_use (thinking, say) leaves the
\* state as it was, and a user entry appended and read afterwards makes it
\* false.  (Violated: a user entry with an empty or missing content leaves
\* the state true.)
C28_WaitingAfterCatchUp ==
    [][/\ (called' = "read_all" /\ history' = history)
           => (_waiting_for_input' <=> EndsInAssistantText(history))
       /\ ReadsUserLast => ~_waiting_for_input']_vars

-----------------------------------------------------------------------------
(* The list of sessions: the claim                                         *)

\* the backing file of the session with the id
BackingFile(id) == fsys[[dir |-> "project", stem |-> id]]

\* C29: get_sessions_list returns every tracked session exactly once,
\* ordered by the modification time of the backing file from newest to
\* oldest, every session whose file no longer exists after all sessions
\* whose file exists.
C29_ListNewestFirst ==
    listed.called =>
        /\ Len(listed.ids) = Len(_sessions)
        /\ \A id \in TrackedIds :
               Cardinality({i \in DOMAIN listed.ids : listed.ids[i] = id}) = 1
        /\ \A i, j \in DOMAIN listed.ids :
               i < j =>
                   /\ BackingFile(listed.ids[j]).exists
                          => /\ BackingFile(listed.ids[i]).exists
                             /\ BackingFile(listed.ids[i]).mtime
                                    >= BackingFile(listed.ids[j]).mtime

\* the list of two sessions, of which the one added first has lost its file:
\* it is listed behind the other
C29_Witness ==
    /\ listed.called
    /\ Len(_sessions) = 2
    /\ ~fsys[_sessions[1].path].exists
    /\ fsys[_sessions[2].path].exists
    /\ listed.ids = <<_sessions[2].session_id, _sessions[1].session_id>>


-----------------------------------------------------------------------------
(* Specification SpecTruncate: one tailer and a file that its writer may
   cut short, replace or take away between two reads *)

\* the writer of the session file cuts it down to its first n characters
\* (n = 0: the file is replaced by an empty one); the tailer is not told
truncate(n) ==
    /\ n < Len(file)
    /\ file' = SubSeq(file, 1, n)
    /\ op' = "truncate"
    /\ UNCHANGED <<position, buffer, message_index, opened, ret, prev, returned>>
    /\ UNCHANGED outsideTailer

\* the file of this specification is at most this long
MaxTruncLen == 6

\* what its writer writes: user entries, whole or cut short, and empty lines
TruncChars == {"U", "}", NL}

NextTruncate ==
    \/ \E c \in TruncChars : Len(file) < MaxTruncLen /\ AppendChar(c)
    \/ \E n \in 0..MaxTruncLen : truncate(n)
    \/ \E st \in OpenOutcomes : read_new_lines(st)

SpecTruncate == Init /\ [][NextTruncate]_vars

\* a call of tailer.read_new_lines()
Reads == \E st \in OpenOutcomes : read_new_lines(st)

\* the line terminators of the file that lie beyond the tailer's position
TerminatorsBeyond(pos) == {i \in Terminators(file) : i > pos}

\* C30: over reads interleaved with appends, a file that goes missing and
\* comes back, and truncations, the tailer's position never decreases; a read
\* of a file that was cut to below the position returns nothing and leaves the
\* position; and a read never delivers more entries than there are lines
\* ending beyond the position it started from, so that nothing written below
\* the old position is delivered.
C30_PositionNeverDecreases ==
    /\ [][position' >= position]_vars
    /\ [][(Reads /\ Len(file) < position)
            => (ret' = <<>> /\ position' = position)]_vars
    /\ [][Reads => Len(ret') <= Cardinality(TerminatorsBeyond(position))]_vars

\* the file was cut to below the position and a complete line was written
\* there; the read that followed met the file and returned nothing
C30_Witness ==
    /\ op = "read_new_lines"
    /\ opened = "present"
    /\ Len(file) < position
    /\ Terminators(file) # {}
    /\ ret = <<>>
    /\ position = prev.position


-----------------------------------------------------------------------------
(* The idle tracker, continued *)

\* the step in which an idle timer of s fires while s is not PENDING
FiresNotPending(s) ==
    /\ last'.op = "idle_timer" /\ last'.session_id = s
    /\ sessions[s].state # "pending"

\* C31: when an idle timer fires for a session whose state is not PENDING,
\* the timer reference is dropped, the state and summary_started_at of the
\* session (and of every other) are unchanged, and the summarize callback is
\* not invoked.
C31_TimerOnNotPendingIsNoOp ==
    [][\A s \in SessionIds :
          FiresNotPending(s) =>
              /\ ~_timers'[s]
              /\ sessions' = sessions
              /\ inflight' = inflight]_vars

\* timers of s that fired outside PENDING: during a running summarization,
\* after the stuck check failed it, and after its callback ended
C31_Witness ==
    /\ last.op = "idle_timer"
    /\ sessions[last.session_id].state \in {"done", "failed"}
    /\ ~_timers[last.session_id]

C31_WitnessSummarizing ==
    /\ last.op = "idle_timer"
    /\ sessions[last.session_id] = Tracked("summarizing", "overdue")
    /\ ~_timers[last.session_id]


-----------------------------------------------------------------------------
(* Token usage, continued: the records retained by the deduplication *)

\* the places of the entries that have a non-empty usage
WithUsage(entries) == {i \in DOMAIN entries : entries[i].usage # "empty"}

\* those of them that carry both a message id and a request id
Keyed(entries) ==
    {i \in WithUsage(entries) :
        entries[i].id # NoId /\ entries[i].requestId # NoId}

\* those that lack one of the two
Unkeyed(entries) == WithUsage(entries) \ Keyed(entries)

\* the keyed entries that share the key of the entry at i
SameKey(entries, i) ==
    {j \in Keyed(entries) :
        /\ entries[j].id = entries[i].id
        /\ entries[j].requestId = entries[i].requestId}

\* the earliest entry, in file order, that reaches the largest output_tokens
\* of the key of the entry at i
EarliestMax(entries, i) ==
    Min({j \in SameKey(entries, i) :
            \A k \in SameKey(entries, i) :
                entries[k].output_tokens <= entries[j].output_tokens})

\* one entry for each key, and every entry that has no key
RetainedPlaces(entries) ==
    {EarliestMax(entries, i) : i \in Keyed(entries)} \cup Unkeyed(entries)

RECURSIVE SumInputAt(_, _)
SumInputAt(entries, places) ==
    IF places = {} THEN 0
    ELSE LET i == CHOOSE j \in places : TRUE
         IN  entries[i].input_tokens + SumInputAt(entries, places \ {i})

RECURSIVE SumOutputAt(_, _)
SumOutputAt(entries, places) ==
    IF places = {} THEN 0
    ELSE LET i == CHOOSE j \in places : TRUE
         IN  entries[i].output_tokens + SumOutputAt(entries, places \ {i})

\* C32: when several usage records share a dedup key and more than one of
\* them reaches the largest output_tokens, the record retained is the
\* earliest of these in file order: the input tokens counted for the key are
\* those of that one record, whole and unmixed, so that the total of the
\* input tokens is the sum over the records retained.
C32_TieKeepsEarliest ==
    totals.fn = "pricing" =>
        totals.input_tokens = SumInputAt(Counted, RetainedPlaces(Counted))

\* two records of one key reach its largest output_tokens with different
\* input_tokens, and the usage was totalled
C32_Witness ==
    /\ totals.fn = "pricing"
    /\ \E i, j \in Keyed(Counted) :
           /\ i < j
           /\ j \in SameKey(Counted, i)
           /\ EarliestMax(Counted, i) = i
           /\ Counted[j].output_tokens = Counted[i].output_tokens
           /\ Counted[j].input_tokens # Counted[i].input_tokens

\* C33: every assistant record with a non-empty usage that lacks a message
\* id or a request id is counted exactly once: the messages counted are one
\* for each key and one for each such record, and the output tokens are
\* those of the records retained, so that no such record replaces another
\* record or is replaced by one.
C33_UnkeyedCountedOnce ==
    totals.fn = "pricing" =>
        /\ totals.message_count = Cardinality(RetainedPlaces(Counted))
        /\ totals.output_tokens = SumOutputAt(Counted, RetainedPlaces(Counted))

\* two records without a key, alike in everything, and a record with a key
\* between them, and the usage was totalled
C33_Witness ==
    /\ totals.fn = "pricing"
    /\ \E i, j \in Unkeyed(Counted) :
           /\ i < j
           /\ Counted[i] = Counted[j]
           /\ \E k \in Keyed(Counted) : i < k /\ k < j


-----------------------------------------------------------------------------
(* Subscribers, continued *)

\* C34: a catch-up enumeration never holds the sessions lock for ever: every
\* time an event_generator takes the lock it gives it back later, also when
\* its subscriber stops consuming events during the catch-up.  (Violated: a
\* generator suspended at the yield of a catch-up message keeps the lock
\* until it is resumed or torn down; CATCHUP_TIMEOUT is looked at only when
\* it is resumed.)
C34_LockEventuallyReleased ==
    \A c \in Clients : (lock = c) ~> (lock # c)


\* the user and assistant entries that the file of session id s holds
EntriesOnDisk(s) ==
    LET f == fsys[[dir |-> "project", stem |-> s]].content
    IN  MessagesOf(LinesIn(f, 0, Len(f)))

\* C35: a subscriber never receives the same file entry twice: an entry it
\* was sent during its catch-up is not sent to it again as a live message.
\* Then the message events a subscriber has been sent for a session since it
\* connected are never more than the entries the file of the session holds.
\* (Violated: an entry that the tailer of the session has not read yet is
\* sent by the catch-up, which reads the whole file, and again when the watch
\* loop reads on from the tailer's position.)
C35_NoEntryTwice ==
    \A c \in Clients, s \in Stems :
        received.count[c][s] <= Len(EntriesOnDisk(s))


-----------------------------------------------------------------------------
(* The idle tracker: late completions, pending sessions, start times *)

\* C36: the end of a summarize callback changes the state of its session
\* only if the session is still in the SUMMARIZING run that invoked the
\* callback: where the stuck check or mark_session_summarized (and new
\* activity after it) has taken the session out of SUMMARIZING, the late end
\* leaves the session as it is.  (Violated: _on_idle_timeout marks the
\* session DONE or FAILED after the await whatever its state has become.)
C36_LateCompletionChangesNothing ==
    [][\A s \in SessionIds :
          (CallbackEnds(s) /\ sessions[s].state # "summarizing")
              => sessions'[s] = sessions[s]]_vars


\* C37: while the tracker is not shut down every session in PENDING has an
\* outstanding idle timer, so that a PENDING session is considered for
\* summarization without further activity; also after a timer has fired and
\* the session lookup returned no session.  (Violated: that timer drops its
\* reference and returns, and the session stays PENDING with no timer.)
C37_PendingHasTimer ==
    ~_shutdown =>
        \A s \in SessionIds : sessions[s].state = "pending" => _timers[s]


-----------------------------------------------------------------------------
(* Subscribers: the order of the events of one event_generator *)

\* the yields that can follow a yield of the generator: pc names the yield,
\* "start" and "done" mean that no generator runs
YieldOrder ==
    { <<"start", "sessions">>, <<"done", "sessions">>,
      <<"sessions", "catchup">>, <<"sessions", "complete">>,
      <<"sessions", "reinit">>,
      <<"catchup", "catchup">>, <<"catchup", "complete">>,
      <<"catchup", "reinit">>,
      <<"complete", "live">>, <<"live", "live">> }

\* what is yielded at each yield
YieldedAt(pc) ==
    CASE pc = "sessions" -> {"sessions"}
      [] pc = "catchup"  -> {"message"}
      [] pc = "complete" -> {"catchup_complete"}
      [] pc = "reinit"   -> {"reinitialize"}
      [] pc = "live"     -> {"message", "session_added", "session_removed", "ping"}
      [] OTHER           -> {"none"}

\* C38: for every subscriber the events event_generator yields are ordered:
\* one sessions event first, then only message events of the catch-up, then
\* one of catchup_complete and reinitialize; the events of the queue and the
\* pings come only after catchup_complete, and nothing comes after
\* reinitialize.  A generator may end (be torn down) after any yield.
C38_EventsInOrder ==
    /\ [](\A c \in Clients : gen[c].out.event \in YieldedAt(gen[c].pc))
    /\ [][\A c \in Clients :
              gen'[c] # gen[c] =>
                  \/ <<gen[c].pc, gen'[c].pc>> \in YieldOrder
                  \/ gen'[c].pc = "done" /\ gen[c].pc # "start"]_vars

\* a subscriber that was sent messages in its catch-up is sent a message of
\* its queue after catchup_complete
C38_Witness ==
    /\ gen[Consumer].pc = "live"
    /\ gen[Consumer].out.event = "message"
    /\ received.count[Consumer][Growing.stem] >= 2


-----------------------------------------------------------------------------
(* Waiting for input: split reads and read_all *)

\* the state of a fresh tailer that has read the whole file in one
\* read_new_lines()
FreshTailer == ReadLines(history, 1, Waiting(FALSE, None))

C40_StartTimeIffSummarizing ==
    \A s \in SessionIds :
        sessions[s] # NotTracked =>
            (sessions[s].summary_started_at # None
                <=> sessions[s].state = "summarizing")

\* a session is being summarized anew, overdue, after an earlier callback
\* of it was left behind by mark_session_summarized, while another session
\* has finished and lost its start time
C40_Witness ==
    /\ sessions["s1"] = Tracked("summarizing", "overdue")
    /\ inflight["s1"] = 2
    /\ sessions["s2"] = Tracked("failed", None)

====
